---- MODULE Spec2Model ----
(***************************************************************************)
(* Discrete-event kernel of the coffee-shop queueing network: the event    *)
(* list and clock (sim/queues.py), the stations (sim/queues.py,            *)
(* sim/stations.py) and the router (sim/network.py).  One step of the      *)
(* model is one iteration of Env.run_until: pop the earliest event and     *)
(* run its handler to completion.  Times are integer ticks.                *)
(***************************************************************************)
EXTENDS Integers, Sequences, FiniteSets, TLC

VARIABLES t, FEL, S, orders, trace, err, T_end, rng, twin

vars == <<t, FEL, S, orders, trace, err, T_end, rng, twin>>

\* ------------------------------------------------------------------ bounds
MaxDur == 1        \* sampled service durations range over 0..MaxDur
MaxTrace == 70     \* cap on the length of the observation trace
Horizon == 5       \* T_end of the scenarios that run past the first instants

None == -1         \* Python None in an optional numeric field
Inf == 1000        \* math.inf as a capacity

Durations == 0 .. MaxDur

StationNames == {"cashier", "window", "espresso", "hotfood", "beverage",
                 "drive_thru_pickup", "pack", "shelf", "dine_in_clean", "dine_in"}

EmptyDict == [n \in StationNames |-> None]

Max(a, b) == IF a >= b THEN a ELSE b

\* ---------------------------------------------------------------- entities
Customer(channel, arrival_time, dine_in, patience) ==
    [channel |-> channel, arrival_time |-> arrival_time,
     dine_in |-> dine_in, patience |-> patience]

\* A rate is kept as the mean it is the reciprocal of: Rate(m) is 1.0 / m.
Rate(mean) == [inv |-> mean]
NoRate == [inv |-> None]

Item(kind, svc_params, route) ==
    [kind |-> kind, svc_params |-> svc_params, route |-> route, parent_order |-> None,
     queue_entry_times |-> EmptyDict, service_durations |-> EmptyDict]

Order(oid, customer, items, t_created) ==
    [oid |-> oid, customer |-> customer, items |-> items,
     t_created |-> t_created, t_ready |-> None, t_packed |-> None,
     t_picked |-> None, t_seated |-> None, t_left_dine_in |-> None,
     ready_items |-> 0,
     queue_entry_times |-> EmptyDict, service_durations |-> EmptyDict]

\* A job is a reference to an Order (idx = 0) or to the idx-th Item of an Order.
OrderJob(o) == [oid |-> o, idx |-> 0]
ItemJob(o, i) == [oid |-> o, idx |-> i]
NoJob == [oid |-> 0, idx |-> 0]

\* getattr(job, "customer", None): only Orders carry a customer.
HasCustomer(job) == job.idx = 0

JobRec(w, job) ==
    IF job.idx = 0 THEN w.orders[job.oid] ELSE w.orders[job.oid].items[job.idx]

SetQueueEntry(w, job, name, val) ==
    IF job.idx = 0
    THEN [w EXCEPT !.orders[job.oid].queue_entry_times[name] = val]
    ELSE [w EXCEPT !.orders[job.oid].items[job.idx].queue_entry_times[name] = val]

SetServiceDuration(w, job, name, val) ==
    IF job.idx = 0
    THEN [w EXCEPT !.orders[job.oid].service_durations[name] = val]
    ELSE [w EXCEPT !.orders[job.oid].items[job.idx].service_durations[name] = val]

\* Statement sequencing: the state v is computed once and handed to F.
Bind(v, F(_)) == CHOOSE r \in {F(x) : x \in {v}} : TRUE

\* ------------------------------------------------------------------ events
\* The event kinds run_until has a branch for, and one it has none for.
KnownKinds == {"arrival", "departure", "timer"}
Kinds == KnownKinds \cup {"stray"}

Event(time, kind, station, job) ==
    [t |-> time, kind |-> kind, station |-> station, job |-> job]

\* Event.__lt__: events compare on time only.
EventLt(a, b) == a.t < b.t

\* heapq._siftdown(heap, startpos, pos) on a 1-based sequence.
RECURSIVE SiftDown(_, _, _, _)
SiftDown(heap0, startpos, pos, newitem) ==
    Bind(heap0, LAMBDA heap :
        IF pos > startpos /\ EventLt(newitem, heap[pos \div 2])
        THEN SiftDown([heap EXCEPT ![pos] = heap[pos \div 2]], startpos, pos \div 2, newitem)
        ELSE [heap EXCEPT ![pos] = newitem])

\* heapq._siftup(heap, pos): move the smaller child up until a leaf, then sift down.
RECURSIVE SiftUp(_, _, _, _)
SiftUp(heap0, startpos, pos, newitem) ==
    Bind(heap0, LAMBDA heap :
        LET endpos == Len(heap)
            left == 2 * pos
            right == left + 1
            childpos == IF right <= endpos /\ ~EventLt(heap[left], heap[right])
                        THEN right ELSE left
        IN  IF left <= endpos
            THEN SiftUp([heap EXCEPT ![pos] = heap[childpos]], startpos, childpos, newitem)
            ELSE SiftDown(heap, startpos, pos, newitem))

\* Mutant: the new event is appended without restoring the heap order.
HeapPush_unsifted(heap, ev) == Append(heap, ev)

HeapPush(heap, ev) == SiftDown(Append(heap, ev), 1, Len(heap) + 1, ev)

\* heapq.heappop: the returned item is heap[1]; this is the remaining heap.
HeapPopRest(heap) ==
    IF Len(heap) <= 1 THEN <<>>
    ELSE SiftUp(SubSeq(heap, 1, Len(heap) - 1), 1, 1, heap[Len(heap)])

\* Mutant: the event is pushed twice.
schedule_twice(w0, ev) ==
    Bind(w0, LAMBDA w : [w EXCEPT !.FEL = HeapPush(HeapPush(w.FEL, ev), ev)])

\* Env.schedule
schedule(w0, ev) == Bind(w0, LAMBDA w : [w EXCEPT !.FEL = HeapPush(w.FEL, ev)])

\* ------------------------------------------------------------ observation
\* One entry per dispatched event, per Metrics.note_* call, per Router.on_arrival
\* call, per Server.enqueue result and per service start, in program order.
\* Entries about a station carry its queue, in_service and in_refill at that
\* moment; the entry of a service start also carries the rate its duration
\* was sampled with.
Note(w0, ev, station, job, val) ==
    Bind(w0, LAMBDA w :
        LET known == station \in DOMAIN w.S IN
        IF w.err # "ok" THEN w
        ELSE [w EXCEPT !.trace = Append(@,
                [ev |-> ev, t |-> w.t, station |-> station, job |-> job, val |-> val,
                 q |-> IF known THEN w.S[station].queue ELSE <<>>,
                 n |-> IF known THEN w.S[station].in_service ELSE 0,
                 flag |-> IF known THEN w.S[station].in_refill ELSE FALSE,
                 rate |-> NoRate])])

\* ---------------------------------------------------------------- stations
StationRec(type, c, K, service_rate) ==
    [type |-> type, c |-> c, K |-> K, service_rate |-> service_rate,
     queue |-> <<>>, in_service |-> 0,
     busy_time |-> 0, last_change |-> 0, prev_in_service |-> 0,
     batch_size |-> 0, downtime |-> 0, remaining |-> 0, in_refill |-> FALSE,
     priority |-> <<>>, pending_releases |-> 0]

\* Server.__init__
Server(c, K, service_rate) == StationRec("Server", c, K, service_rate)

\* BatchServer.__init__
BatchServer(c, K, service_rate, batch_size, downtime) ==
    [StationRec("BatchServer", c, K, service_rate) EXCEPT
        !.batch_size = Max(1, batch_size),
        !.downtime = Max(0, downtime),
        !.remaining = Max(1, batch_size)]

\* PackServer.__init__
PackServer(c, K, service_rate, priority) ==
    [StationRec("PackServer", c, K, service_rate) EXCEPT !.priority = priority]

\* DineInServer.__init__
DineInServer(c, K, service_rate) == StationRec("DineInServer", c, K, service_rate)

\* PickupServer is imported by stations.py but not defined in queues.py;
\* the shelf is a base FIFO station.
PickupServer(c, K, service_rate) == StationRec("PickupServer", c, K, service_rate)

\* Mutant: the capacity test lets one job too many in.
can_join_off_by_one(s) == Len(s.queue) + s.in_service <= s.K

\* Server.can_join
can_join(s) == Len(s.queue) + s.in_service < s.K

\* Mutant: busy time is the wall-clock time since the last change, however
\* many servers were active.
mark_busy_wall_clock(w0, name) ==
    Bind(w0, LAMBDA w :
        LET s == w.S[name]
            dt == w.t - s.last_change
        IN  [w EXCEPT !.S[name].busy_time =
                          IF dt > 0 /\ s.prev_in_service > 0 THEN @ + dt ELSE @,
                      !.S[name].last_change = w.t,
                      !.S[name].prev_in_service = s.in_service])

\* Server._mark_busy
mark_busy(w0, name) ==
    Bind(w0, LAMBDA w :
        LET s == w.S[name]
            dt == w.t - s.last_change
        IN  [w EXCEPT !.S[name].busy_time = IF dt > 0 THEN @ + s.prev_in_service * dt ELSE @,
                      !.S[name].last_change = w.t,
                      !.S[name].prev_in_service = s.in_service])

\* Server.draw_service: 1.0 / self.service_rate raises when no rate is configured.
draw_raises(s) == s.service_rate = None \/ s.service_rate = 0

\* Server.draw_service, lines 111-121: the rate handed to random.expovariate.
\* The lookup of job.svc_params is commented out, so rate is None at line 120.
draw_rate(s, job) == Rate(s.service_rate)

\* random.expovariate(rate): the next sampled duration of this dispatch.
draw_service(w) == w.rnd[w.used + 1]

\* Body of the service-start loop (queues.py 126-133, 217-224; stations.py 102-107):
\* the job at queue position idx leaves the queue and a departure is scheduled.
StartService(w0, name, idx) ==
    Bind(w0, LAMBDA w :
        LET s == w.S[name]
            job == s.queue[idx]
            rest == SubSeq(s.queue, 1, idx - 1) \o SubSeq(s.queue, idx + 1, Len(s.queue))
            st == draw_service(w)
            w1 == [Note(w, "start", name, job, st) EXCEPT
                      !.trace[Len(w.trace) + 1].rate = draw_rate(s, job),
                      !.S[name].queue = rest, !.used = @ + 1]
            w2 == SetServiceDuration(w1, job, name, st)
            w3 == [w2 EXCEPT !.S[name].in_service = @ + 1,
                             !.S[name].remaining =
                                 IF s.type = "BatchServer" THEN @ - 1 ELSE @]
            w4 == mark_busy(w3, name)
        IN  IF draw_raises(s)
            THEN [w EXCEPT !.S[name].queue = rest, !.err = "draw_service"]
            ELSE schedule(w4, Event(w.t + st, "departure", name, job)))

\* Mutant: the refill takes no time.
schedule_refill_instant(w0, name) ==
    Bind(w0, LAMBDA w :
        LET s == w.S[name] IN
        IF s.in_refill \/ s.downtime <= 0 THEN w
        ELSE schedule([w EXCEPT !.S[name].in_refill = TRUE],
                      Event(w.t, "timer", name, NoJob)))

\* Mutant: the refill timer is scheduled without marking the station as
\* being in refill.
schedule_refill_unflagged(w0, name) ==
    Bind(w0, LAMBDA w :
        LET s == w.S[name] IN
        IF s.in_refill \/ s.downtime <= 0 THEN w
        ELSE schedule(w, Event(w.t + s.downtime, "timer", name, NoJob)))

\* BatchServer._schedule_refill
schedule_refill(w0, name) ==
    Bind(w0, LAMBDA w :
        LET s == w.S[name] IN
        IF s.in_refill \/ s.downtime <= 0 THEN w
        ELSE schedule([w EXCEPT !.S[name].in_refill = TRUE],
                      Event(w.t + s.downtime, "timer", name, NoJob)))

\* PackServer._pop_next: queue position of the job to start next.
ChannelAt(w, job) == IF HasCustomer(job) THEN w.orders[job.oid].customer.channel ELSE "none"

\* Mutant: of the queued jobs of the channel, the one admitted last is taken.
RECURSIVE pop_next_from_last(_, _, _)
pop_next_from_last(w, name, p) ==
    LET s == w.S[name]
        hits == {i \in 1 .. Len(s.queue) : ChannelAt(w, s.queue[i]) = s.priority[p]}
    IN  IF p > Len(s.priority) THEN 1
        ELSE IF hits # {} THEN CHOOSE i \in hits : \A j \in hits : j <= i
        ELSE pop_next_from_last(w, name, p + 1)

RECURSIVE pop_next_from(_, _, _)
pop_next_from(w, name, p) ==
    LET s == w.S[name]
        hits == {i \in 1 .. Len(s.queue) : ChannelAt(w, s.queue[i]) = s.priority[p]}
    IN  IF p > Len(s.priority) THEN 1
        ELSE IF hits # {} THEN CHOOSE i \in hits : \A j \in hits : i <= j
        ELSE pop_next_from(w, name, p + 1)

\* Mutant: the job queued last is taken, whatever the priority list.
pop_next_newest(w, name) == Len(w.S[name].queue)

\* Mutant: the priority list is ignored.
pop_next_fifo(w, name) == 1

pop_next(w, name) ==
    IF w.S[name].priority = <<>> THEN 1 ELSE pop_next_from(w, name, 1)

\* Mutant: a batch station with a free slot starts service during its refill.
RECURSIVE try_start_service_in_refill(_, _)
try_start_service_in_refill(w0, name) ==
    Bind(w0, LAMBDA w :
        LET s == w.S[name] IN
        IF w.err # "ok" THEN w
        ELSE IF s.queue # <<>> /\ s.in_service < s.c
        THEN IF s.type = "BatchServer" /\ ~s.in_refill /\ s.remaining <= 0
             THEN schedule_refill(w, name)
             ELSE try_start_service_in_refill(
                      StartService(w, name, IF s.type = "PackServer"
                                            THEN pop_next(w, name) ELSE 1), name)
        ELSE w)

\* Mutant: the job queued last is started first.
RECURSIVE try_start_service_lifo(_, _)
try_start_service_lifo(w0, name) ==
    Bind(w0, LAMBDA w :
        LET s == w.S[name] IN
        IF w.err # "ok" THEN w
        ELSE IF s.queue # <<>> /\ s.in_service < s.c
        THEN IF s.type = "BatchServer"
             THEN IF s.in_refill THEN w
                  ELSE IF s.remaining <= 0 THEN schedule_refill(w, name)
                  ELSE try_start_service_lifo(StartService(w, name, Len(s.queue)), name)
             ELSE IF s.type = "PackServer"
             THEN try_start_service_lifo(StartService(w, name, pop_next(w, name)), name)
             ELSE try_start_service_lifo(StartService(w, name, Len(s.queue)), name)
        ELSE w)

\* Server.try_start_service, BatchServer.try_start_service, PackServer.try_start_service
RECURSIVE try_start_service(_, _)
try_start_service(w0, name) ==
    Bind(w0, LAMBDA w :
        LET s == w.S[name] IN
        IF w.err # "ok" THEN w
        ELSE IF s.queue # <<>> /\ s.in_service < s.c
        THEN IF s.type = "BatchServer"
             THEN IF s.in_refill THEN w
                  ELSE IF s.remaining <= 0 THEN schedule_refill(w, name)
                  ELSE try_start_service(StartService(w, name, 1), name)
             ELSE IF s.type = "PackServer"
             THEN try_start_service(StartService(w, name, pop_next(w, name)), name)
             ELSE try_start_service(StartService(w, name, 1), name)
        ELSE w)

\* Mutant: a refused job still gets its admission timestamp.
enqueue_stamping(w0, name, job) ==
    Bind(w0, LAMBDA w :
        IF w.err # "ok" THEN w
        ELSE IF ~can_join(w.S[name])
        THEN [SetQueueEntry(Note(w, "enqueue", name, job, 0), job, name, w.t)
                 EXCEPT !.ret = FALSE]
        ELSE [try_start_service(
                 [SetQueueEntry(Note(w, "enqueue", name, job, 1), job, name, w.t)
                     EXCEPT !.S[name].queue = Append(@, job)], name)
                 EXCEPT !.ret = TRUE])

\* Server.enqueue; the boolean result is left in w.ret.
enqueue(w0, name, job) ==
    Bind(w0, LAMBDA w :
        IF w.err # "ok" THEN w
        ELSE IF ~can_join(w.S[name])
        THEN [Note(w, "enqueue", name, job, 0) EXCEPT !.ret = FALSE]
        ELSE [try_start_service(
                 [SetQueueEntry(Note(w, "enqueue", name, job, 1), job, name, w.t)
                     EXCEPT !.S[name].queue = Append(@, job)], name)
                 EXCEPT !.ret = TRUE])

\* Mutant: the wait is the whole time since admission, service included.
extract_wait_value_sojourn(w, job, name) ==
    LET r == JobRec(w, job)
        t_arr == r.queue_entry_times[name]
        st == r.service_durations[name]
        wait == w.t - t_arr
    IN  IF (\A n \in StationNames : r.queue_entry_times[n] = None)
           \/ (\A n \in StationNames : r.service_durations[n] = None)
           \/ t_arr = None \/ st = None
        THEN None
        ELSE IF wait > 0 THEN wait ELSE 0

\* Server._extract_wait: the value returned (None when a dict is empty or lacks the station).
extract_wait_value(w, job, name) ==
    LET r == JobRec(w, job)
        t_arr == r.queue_entry_times[name]
        st == r.service_durations[name]
        wait == w.t - st - t_arr
    IN  IF (\A n \in StationNames : r.queue_entry_times[n] = None)
           \/ (\A n \in StationNames : r.service_durations[n] = None)
           \/ t_arr = None \/ st = None
        THEN None
        ELSE IF wait > 0 THEN wait ELSE 0

\* Server._extract_wait: both entries are popped unless a dict is empty.
extract_wait_pop(w, job, name) ==
    LET r == JobRec(w, job) IN
    IF (\A n \in StationNames : r.queue_entry_times[n] = None)
       \/ (\A n \in StationNames : r.service_durations[n] = None)
    THEN w
    ELSE SetServiceDuration(SetQueueEntry(w, job, name, None), job, name, None)

\* on_departure lines 138-142 / stations.py 43-47: wait notification.
emit_wait(w0, name, job) ==
    Bind(w0, LAMBDA w :
        IF extract_wait_value(w, job, name) # None
        THEN Note(extract_wait_pop(w, job, name), "wait", name, job,
                  extract_wait_value(w, job, name))
        ELSE extract_wait_pop(w, job, name))

\* Mutant: a refused admission is not reported.
on_arrival_unreported(w0, job, target) ==
    Bind(w0, LAMBDA w :
        IF w.err # "ok" THEN w
        ELSE enqueue(Note(w, "on_arrival", target, job, 0), target, job))

\* Router.on_arrival; the boolean result is left in w.ret.
on_arrival(w0, job, target) ==
    Bind(w0, LAMBDA w :
        IF w.err # "ok" THEN w
        ELSE Bind(enqueue(Note(w, "on_arrival", target, job, 0), target, job), LAMBDA w1 :
                IF w1.err = "ok" /\ ~w1.ret
                THEN [Note(w1, "block", target, job, 0) EXCEPT !.ret = FALSE]
                ELSE w1))

\* Mutant: t_ready is stamped at every completed item.
mark_item_ready_restamp(w0, o) ==
    Bind(w0, LAMBDA w :
        LET n == w.orders[o].ready_items + 1
            all_ready == n = Len(w.orders[o].items)
        IN  [w EXCEPT !.orders[o].ready_items = n,
                      !.orders[o].t_ready = w.t,
                      !.ret = all_ready])

\* Mutant: every completed item fires the join.
mark_item_ready_always(w0, o) ==
    Bind(w0, LAMBDA w :
        LET n == w.orders[o].ready_items + 1 IN
        [w EXCEPT !.orders[o].ready_items = n,
                  !.orders[o].t_ready = w.t,
                  !.ret = TRUE])

\* Mutant: the join fires one item early.
mark_item_ready_early(w0, o) ==
    Bind(w0, LAMBDA w :
        LET n == w.orders[o].ready_items + 1
            all_ready == n >= Len(w.orders[o].items) - 1
        IN  [w EXCEPT !.orders[o].ready_items = n,
                      !.orders[o].t_ready = IF all_ready THEN w.t ELSE @,
                      !.ret = all_ready])

\* Order.mark_item_ready; the boolean result is left in w.ret.
mark_item_ready(w0, o) ==
    Bind(w0, LAMBDA w :
        LET n == w.orders[o].ready_items + 1
            all_ready == n = Len(w.orders[o].items)
        IN  [w EXCEPT !.orders[o].ready_items = n,
                      !.orders[o].t_ready = IF all_ready THEN w.t ELSE @,
                      !.ret = all_ready])

\* Router._fanout_items: the loop over order.items from position i on.
RECURSIVE fanout_from(_, _, _)
fanout_from(w0, o, i) ==
    Bind(w0, LAMBDA w :
        IF w.err # "ok" THEN w
        ELSE IF i > Len(w.orders[o].items)
        THEN Note(w, "kitchen_entry", "", OrderJob(o), 0)
        ELSE fanout_from(on_arrival([w EXCEPT !.orders[o].items[i].parent_order = o],
                                    ItemJob(o, i), w.orders[o].items[i].route[1]),
                         o, i + 1))

fanout_items(w, o) == fanout_from(w, o, 1)

\* Mutant: a wait equal to the patience already reneges.
pickup_renege_at_patience(w, o, pickup_wait) ==
    LET cust == w.orders[o].customer IN
    IF ~(cust.dine_in \/ cust.channel = "mobile") THEN FALSE
    ELSE IF cust.patience = None THEN FALSE
    ELSE pickup_wait >= cust.patience

\* Router._pickup_renege
pickup_renege(w, o, pickup_wait) ==
    LET cust == w.orders[o].customer IN
    IF ~(cust.dine_in \/ cust.channel = "mobile") THEN FALSE
    ELSE IF cust.patience = None THEN FALSE
    ELSE pickup_wait > cust.patience

\* Router._post_pickup
post_pickup(w0, o) ==
    Bind(w0, LAMBDA w :
        IF w.orders[o].customer.dine_in /\ "dine_in" \in DOMAIN w.S
        THEN Bind(on_arrival(w, OrderJob(o), "dine_in"), LAMBDA w1 :
                IF w1.err = "ok" /\ w1.ret
                THEN Note([w1 EXCEPT !.orders[o].t_seated = w1.t],
                          "dinein_start", "", OrderJob(o), 0)
                ELSE w1)
        ELSE w)

\* Mutant: one completed cleaning releases every table that awaits one.
release_after_clean_all(w0, name) ==
    Bind(Note(w0, "release", name, NoJob, w0.S[name].pending_releases), LAMBDA w :
        IF w.S[name].pending_releases <= 0 THEN w
        ELSE try_start_service(
                 mark_busy([w EXCEPT !.S[name].pending_releases = 0,
                                     !.S[name].in_service = @ - w.S[name].pending_releases],
                           name), name))

\* Mutant: the release does not look at the number of pending releases.
release_after_clean_unguarded(w0, name) ==
    Bind(Note(w0, "release", name, NoJob, w0.S[name].pending_releases), LAMBDA w :
        try_start_service(
            mark_busy([w EXCEPT !.S[name].pending_releases = @ - 1,
                                !.S[name].in_service = @ - 1], name), name))

\* DineInServer.release_after_clean
release_after_clean(w0, name) ==
    Bind(Note(w0, "release", name, NoJob, w0.S[name].pending_releases), LAMBDA w :
        IF w.S[name].pending_releases <= 0 THEN w
        ELSE try_start_service(
                 mark_busy([w EXCEPT !.S[name].pending_releases = @ - 1,
                                     !.S[name].in_service = @ - 1], name), name))

\* Mutant: a customer who reneged is still sent on to the seating station.
advance_shelf_seating_reneged(w0, job) ==
    Bind(w0, LAMBDA w :
        LET o == job.oid
            pickup_wait == IF w.orders[o].t_packed # None
                           THEN Max(w.orders[o].t_picked - w.orders[o].t_packed, 0)
                           ELSE 0
        IN  IF pickup_renege(w, o, pickup_wait)
            THEN post_pickup(Note(w, "renege", "", job, pickup_wait), o)
            ELSE post_pickup(Note(w, "pickup", "", job, pickup_wait), o))

\* Router.advance, shelf branch (lines 68-79).
advance_shelf(w0, job) ==
    Bind(w0, LAMBDA w :
        LET o == job.oid
            pickup_wait == IF w.orders[o].t_packed # None
                           THEN Max(w.orders[o].t_picked - w.orders[o].t_packed, 0)
                           ELSE 0
        IN  IF pickup_renege(w, o, pickup_wait)
            THEN Note(w, "renege", "", job, pickup_wait)
            ELSE post_pickup(Note(w, "pickup", "", job, pickup_wait), o))

\* Mutant: an order the shelf refuses completes at pack again at once, with
\* no new service in between.
advance_pack_spin(w0, job) ==
    Bind(enqueue(w0, "shelf", job), LAMBDA w1 :
        IF w1.err # "ok" THEN w1
        ELSE IF ~w1.ret
        THEN schedule([w1 EXCEPT !.S["pack"].in_service = @ + 1],
                      Event(w1.t, "departure", "pack", job))
        ELSE Note([w1 EXCEPT !.orders[job.oid].t_packed = w1.t],
                  "packed", "", job, w1.t))

\* Mutant: the order is stamped and reported as packed whether or not the
\* shelf took it.
advance_pack_stamping(w0, job) ==
    Bind(enqueue(w0, "shelf", job), LAMBDA w1 :
        IF w1.err # "ok" THEN w1
        ELSE IF ~w1.ret
        THEN on_arrival(Note([w1 EXCEPT !.orders[job.oid].t_packed = w1.t],
                             "packed", "", job, w1.t), job, "pack")
        ELSE Note([w1 EXCEPT !.orders[job.oid].t_packed = w1.t],
                  "packed", "", job, w1.t))

\* Mutant: an order the shelf refuses is reported as blocked and given up.
advance_pack_dropping(w0, job) ==
    Bind(enqueue(w0, "shelf", job), LAMBDA w1 :
        IF w1.err # "ok" THEN w1
        ELSE IF ~w1.ret THEN Note(w1, "block", "shelf", job, 0)
        ELSE Note([w1 EXCEPT !.orders[job.oid].t_packed = w1.t],
                  "packed", "", job, w1.t))

\* Router.advance, pack branch (lines 58-67).
advance_pack(w0, job) ==
    Bind(enqueue(w0, "shelf", job), LAMBDA w1 :
        IF w1.err # "ok" THEN w1
        ELSE IF ~w1.ret THEN on_arrival(w1, job, "pack")
        ELSE Note([w1 EXCEPT !.orders[job.oid].t_packed = w1.t],
                  "packed", "", job, w1.t))

\* Router.advance
advance(w0, job, from) ==
    Bind(w0, LAMBDA w :
        IF w.err # "ok" THEN w
        ELSE IF from \in {"espresso", "hotfood", "beverage"}
        THEN Bind(mark_item_ready(w, JobRec(w, job).parent_order), LAMBDA w1 :
                IF w1.ret THEN on_arrival(w1, OrderJob(JobRec(w, job).parent_order), "pack")
                ELSE w1)
        ELSE IF from = "pack"
        THEN advance_pack(w, job)
        ELSE IF from = "shelf"
        THEN advance_shelf([w EXCEPT !.orders[job.oid].t_picked = w.t], job)
        ELSE IF from = "dine_in"
        THEN Note([w EXCEPT !.orders[job.oid].t_left_dine_in = w.t],
                  "dinein_departure", "", job, w.t)
        ELSE IF from = "dine_in_clean"
        THEN IF "dine_in" \in DOMAIN w.S /\ w.S["dine_in"].type = "DineInServer"
             THEN release_after_clean(w, "dine_in")
             ELSE w
        ELSE IF from \in {"cashier", "window"}
        THEN fanout_items(w, job.oid)
        ELSE w)

\* Server.on_departure
Server_on_departure(w0, name, job) ==
    Bind(w0, LAMBDA w :
        LET w1 == [w EXCEPT !.S[name].in_service = @ - 1]
            w2 == mark_busy(w1, name)
            w3 == emit_wait(w2, name, job)
            w4 == advance(w3, job, name)
        IN  try_start_service(w4, name))

\* The paired cleaning station of the seating station (stations.py 184-188).
cleaning_server == "dine_in_clean"

\* Mutant: the table is freed at the seating job's own completion.
DineInServer_on_departure_frees(w0, name, job) == Server_on_departure(w0, name, job)

\* Mutant: the table is released as soon as its cleaning job is queued.
DineInServer_on_departure_releasing(w0, name, job) ==
    Bind(enqueue(advance(emit_wait(w0, name, job), job, name), cleaning_server, job),
         LAMBDA w3 :
            IF w3.err # "ok" THEN w3
            ELSE release_after_clean([w3 EXCEPT !.S[name].pending_releases = @ + 1], name))

\* Mutant: a refused cleaning admission is retried without being reported.
DineInServer_on_departure_silent(w0, name, job) ==
    Bind(enqueue(advance(emit_wait(w0, name, job), job, name), cleaning_server, job),
         LAMBDA w3 :
            Bind(IF w3.err = "ok" /\ ~w3.ret
                 THEN enqueue(w3, cleaning_server, job)
                 ELSE w3,
                 LAMBDA w4 :
                    IF w4.err # "ok" THEN w4
                    ELSE [w4 EXCEPT !.S[name].pending_releases = @ + 1]))

\* Mutant: the completed seating is not counted as a pending release.
DineInServer_on_departure_uncounted(w0, name, job) ==
    Bind(enqueue(advance(emit_wait(w0, name, job), job, name), cleaning_server, job),
         LAMBDA w3 :
            IF w3.err = "ok" /\ ~w3.ret
            THEN enqueue(Note(w3, "block", cleaning_server, job, 0), cleaning_server, job)
            ELSE w3)

\* DineInServer.on_departure
DineInServer_on_departure(w0, name, job) ==
    Bind(enqueue(advance(emit_wait(w0, name, job), job, name), cleaning_server, job),
         LAMBDA w3 :
            Bind(IF w3.err = "ok" /\ ~w3.ret
                 THEN enqueue(Note(w3, "block", cleaning_server, job, 0), cleaning_server, job)
                 ELSE w3,
                 LAMBDA w4 :
                    IF w4.err # "ok" THEN w4
                    ELSE [w4 EXCEPT !.S[name].pending_releases = @ + 1]))

on_departure(w, name, job) ==
    IF w.S[name].type = "DineInServer"
    THEN DineInServer_on_departure(w, name, job)
    ELSE Server_on_departure(w, name, job)

\* BatchServer.handle_timer
handle_timer(w0, name) ==
    Bind(w0, LAMBDA w :
        try_start_service([w EXCEPT !.S[name].in_refill = FALSE,
                                    !.S[name].remaining = w.S[name].batch_size], name))

\* Router.on_timer
on_timer(w, name) ==
    IF w.S[name].type = "BatchServer" THEN handle_timer(w, name) ELSE w

\* Env.run_until, lines 55-61: dispatch of the popped event by kind.
Dispatch(w0, ev) ==
    Bind(Note(w0, ev.kind, ev.station, ev.job, ev.t), LAMBDA w :
        IF ev.kind = "arrival" THEN on_arrival(w, ev.job, ev.station)
        ELSE IF ev.kind = "departure" THEN on_departure(w, ev.station, ev.job)
        ELSE IF ev.kind = "timer" THEN on_timer(w, ev.station)
        ELSE w)

\* ------------------------------------------------------------ construction
RateKeys == StationNames \cup {"table_cleaning"}

\* rates.get(key, fallback)
RateOr(cfg, key, fallback) ==
    IF cfg.rates[key] # None THEN cfg.rates[key] ELSE fallback

\* make_stations: configuration values are already in clock ticks.
make_stations(cfg) ==
    LET caps == cfg.caps
        rates == cfg.rates
        with_clean == caps.dine_in_tables # 0 /\ rates["table_cleaning"] # None
        names == (StationNames \ {"dine_in", "dine_in_clean"})
                 \cup (IF with_clean THEN {"dine_in", "dine_in_clean"}
                       ELSE IF caps.dine_in_tables # 0 THEN {"dine_in"} ELSE {})
    IN  [n \in names |->
          CASE n = "cashier" -> Server(1, Inf, rates["cashier"])
            [] n = "window" -> Server(1, caps.drive_thru_lane_order,
                                      RateOr(cfg, "window", rates["cashier"]))
            [] n = "espresso" ->
                 IF cfg.espresso.batch_size # 0 /\ cfg.espresso.maintenance # 0
                 THEN BatchServer(caps.espresso_c, Inf, rates["espresso"],
                                  cfg.espresso.batch_size, cfg.espresso.maintenance)
                 ELSE Server(caps.espresso_c, Inf, rates["espresso"])
            [] n = "hotfood" -> Server(caps.hotfood_c, Inf, rates["hotfood"])
            [] n = "beverage" ->
                 IF cfg.beverage.urn_size # 0 /\ cfg.beverage.refill # 0
                 THEN BatchServer(caps.beverage_c, Inf, rates["beverage"],
                                  cfg.beverage.urn_size, cfg.beverage.refill)
                 ELSE Server(caps.beverage_c, Inf, rates["beverage"])
            [] n = "drive_thru_pickup" ->
                 PickupServer(1, caps.drive_thru_lane_pickup,
                              RateOr(cfg, "drive_thru_pickup", rates["window"]))
            [] n = "pack" -> PackServer(1, Inf, RateOr(cfg, "pack", rates["cashier"]),
                                        cfg.pack_priority)
            [] n = "shelf" -> PickupServer(1, caps.shelf_N,
                                           RateOr(cfg, "shelf", rates["cashier"]))
            [] n = "dine_in_clean" -> Server(caps.table_cleaners, Inf, rates["table_cleaning"])
            [] n = "dine_in" ->
                 IF with_clean
                 THEN DineInServer(caps.dine_in_tables, caps.dine_in_tables, rates["dine_in"])
                 ELSE Server(caps.dine_in_tables, caps.dine_in_tables, rates["dine_in"])]

\* schedule_arrivals: the events are pushed one by one (lines 142, 151, 171).
RECURSIVE schedule_all(_, _)
schedule_all(heap, arrivals) ==
    IF arrivals = <<>> THEN heap
    ELSE schedule_all(HeapPush(heap, Event(arrivals[1].t, arrivals[1].kind, arrivals[1].target,
                                             arrivals[1].job)),
                      Tail(arrivals))

\* State of the random module: the seed it was last seeded with and the
\* number of values drawn since.  What it held before a run is arbitrary.
RngStates == [seed : 0 .. 1, pos : 0 .. 1]

\* cfg["sim"].get("seed", 0)
Seed == 0

\* Mutant: the generator is left as the previous run left it.
random_seed_kept(g, seed) == g

\* random.seed(seed)
random_seed(g, seed) == [seed |-> seed, pos |-> 0]

\* A single run has no second run beside it.
NoTwin == [on |-> FALSE]

\* run_one_day up to the call of run_until, for one scenario
\* sc = [S, orders, arrivals, T_end]: the run's own state.
InitRun(sc) ==
    /\ t = 0
    /\ FEL = schedule_all(<<>>, sc.arrivals)
    /\ S = sc.S
    /\ orders = sc.orders
    /\ trace = <<>>
    /\ err = "ok"
    /\ T_end = sc.T_end

InitOf(sc) ==
    /\ InitRun(sc)
    /\ \E g \in RngStates : rng = random_seed(g, Seed)
    /\ twin = NoTwin

\* A second run_one_day with the same configuration, in a process whose
\* random module was left in state g by whatever ran before.
TwinOf(sc, g) ==
    [on |-> TRUE, t |-> 0, FEL |-> schedule_all(<<>>, sc.arrivals), S |-> sc.S,
     orders |-> sc.orders, trace |-> <<>>, err |-> "ok", rng |-> random_seed(g, Seed)]

\* ------------------------------------------------------------- event loop
\* The world a handler runs in: the program state plus the durations that
\* random.expovariate returns during this dispatch (rnd, used) and the
\* result of the last call (ret).
World(time, rnd) ==
    [t |-> time, FEL |-> HeapPopRest(FEL), S |-> S, orders |-> orders,
     trace |-> trace, err |-> err, rnd |-> rnd, used |-> 0, ret |-> TRUE]

\* The same for the second run r.
WorldOf(r, rnd) ==
    [t |-> r.FEL[1].t, FEL |-> HeapPopRest(r.FEL), S |-> r.S, orders |-> r.orders,
     trace |-> r.trace, err |-> r.err, rnd |-> rnd, used |-> 0, ret |-> TRUE]

ZeroDraws == [i \in 1 .. 16 |-> 0]

\* Number of durations a dispatch samples; it does not depend on their values.
DrawsNeeded(ev) == Dispatch(World(ev.t, ZeroDraws), ev).used

\* One iteration of Env.run_until (queues.py 52-61).
RunStep(kind) ==
    /\ FEL # <<>>
    /\ t <= T_end
    /\ err = "ok"
    /\ Len(trace) < MaxTrace
    /\ FEL[1].kind = kind
    /\ LET ev == FEL[1] IN
       \E d \in [1 .. DrawsNeeded(ev) -> Durations] :
       \E w \in {Dispatch(World(ev.t, d), ev)} :
          /\ t' = w.t
          /\ FEL' = w.FEL
          /\ S' = w.S
          /\ orders' = w.orders
          /\ trace' = w.trace
          /\ err' = w.err
          /\ T_end' = T_end
          /\ rng' = [rng EXCEPT !.pos = @ + w.used]
          /\ twin' = twin

\* The values the second run draws when the first draws d1: the random
\* module returns the same value at the same position after the same seed.
TwinDraws(d1, n2) ==
    IF rng = twin.rng
    THEN {d \in [1 .. n2 -> Durations] :
             \A i \in DOMAIN d1 \cap (1 .. n2) : d[i] = d1[i]}
    ELSE [1 .. n2 -> Durations]

\* One iteration of run_until in each of two runs of run_one_day.
RunBoth ==
    /\ twin.on
    /\ FEL # <<>> /\ twin.FEL # <<>>
    /\ t <= T_end /\ twin.t <= T_end
    /\ err = "ok" /\ twin.err = "ok"
    /\ Len(trace) < MaxTrace
    /\ LET ev == FEL[1]
           n2 == Dispatch(WorldOf(twin, ZeroDraws), twin.FEL[1]).used
       IN
       \E d1 \in [1 .. DrawsNeeded(ev) -> Durations] :
       \E d2 \in TwinDraws(d1, n2) :
       \E w \in {Dispatch(World(ev.t, d1), ev)} :
       \E v \in {Dispatch(WorldOf(twin, d2), twin.FEL[1])} :
          /\ t' = w.t
          /\ FEL' = w.FEL
          /\ S' = w.S
          /\ orders' = w.orders
          /\ trace' = w.trace
          /\ err' = w.err
          /\ T_end' = T_end
          /\ rng' = [rng EXCEPT !.pos = @ + w.used]
          /\ twin' = [on |-> TRUE, t |-> v.t, FEL |-> v.FEL, S |-> v.S,
                      orders |-> v.orders, trace |-> v.trace, err |-> v.err,
                      rng |-> [twin.rng EXCEPT !.pos = @ + v.used]]

DispatchArrival == RunStep("arrival")
DispatchDeparture == RunStep("departure")
DispatchTimer == RunStep("timer")
DispatchOther == RunStep("stray")

Next == DispatchArrival \/ DispatchDeparture \/ DispatchTimer \/ DispatchOther

\* --------------------------------------------------------------- scenarios
AllRates == [k \in RateKeys |-> 1]

BaseCaps == [drive_thru_lane_order |-> 2, espresso_c |-> 1, hotfood_c |-> 2,
             beverage_c |-> 2, drive_thru_lane_pickup |-> 3, shelf_N |-> 1,
             dine_in_tables |-> 1, table_cleaners |-> 1]

BaseCfg == [rates |-> AllRates, caps |-> BaseCaps,
            espresso |-> [batch_size |-> 1, maintenance |-> 2],
            beverage |-> [urn_size |-> 0, refill |-> 0],
            pack_priority |-> <<>>]

\* _make_item: the item's own rate is that of its first station.
Items(kinds) ==
    [i \in 1 .. Len(kinds) |->
        Item(kinds[i], [rate |-> Rate(AllRates[kinds[i]])], <<kinds[i]>>)]

Walkin(oid, ts, kinds, patience) ==
    Order(oid, Customer("walkin", ts, TRUE, patience), Items(kinds), ts)
DriveThru(oid, ts, kinds) ==
    Order(oid, Customer("drive_thru", ts, FALSE, None), Items(kinds), ts)
Mobile(oid, ts, kinds, patience) ==
    Order(oid, Customer("mobile", ts, FALSE, patience), Items(kinds), ts)

Arrival(ts, oid, target) ==
    [t |-> ts, kind |-> "arrival", job |-> OrderJob(oid), target |-> target]

\* An event of a kind that run_until has no branch for.
Stray(ts) == [t |-> ts, kind |-> "stray", job |-> NoJob, target |-> ""]

\* A day as run_one_day sets it up: one walk-in order of three items, or a
\* walk-in and a drive-thru order that meet at the one-place shelf.
DayScenarios ==
    { [S |-> make_stations(BaseCfg),
       orders |-> <<Walkin(1, 0, <<"beverage", "espresso", "hotfood">>, 1)>>,
       arrivals |-> <<Arrival(0, 1, "cashier")>>,
       T_end |-> Horizon] }
    \cup
    { [S |-> make_stations(BaseCfg),
       orders |-> <<Walkin(1, 0, <<"hotfood">>, 1),
                    DriveThru(2, a, <<"hotfood", "beverage">>)>>,
       arrivals |-> <<Arrival(0, 1, "cashier"), Arrival(a, 2, "window")>>,
       T_end |-> 1] : a \in {0, 1} }

\* A burst of drive-thru arrivals at the order window (lane capacity 2), or
\* three espresso orders at a window with lane capacity 3.
BurstScenarios ==
    { [S |-> make_stations([BaseCfg EXCEPT !.caps.drive_thru_lane_order = 3,
                                           !.caps.shelf_N = 3]),
       orders |-> <<DriveThru(1, 0, <<"espresso">>), DriveThru(2, 0, <<"espresso">>),
                    DriveThru(3, 0, <<"espresso">>)>>,
       arrivals |-> <<Arrival(0, 1, "window"), Arrival(0, 2, "window"),
                      Arrival(0, 3, "window")>>,
       T_end |-> 3] }
    \cup
    { [S |-> make_stations(BaseCfg),
       orders |-> <<DriveThru(1, 0, <<"hotfood">>), DriveThru(2, 0, <<"hotfood">>),
                    DriveThru(3, 0, <<"hotfood">>), DriveThru(4, a, <<"hotfood">>)>>,
       arrivals |-> <<Arrival(0, 1, "window"), Arrival(0, 2, "window"),
                      Arrival(0, 3, "window"), Arrival(a, 4, "window")>>,
       T_end |-> 0] : a \in {0, 1} }

\* A seating station with one table and room for one waiting party, or one
\* with two tables whose cleaning station has room for a single job, or
\* three dine-in orders of patience 1 on their way from pack to one table.
SeatScenarios ==
    { [S |-> [make_stations(BaseCfg) EXCEPT !["shelf"] = PickupServer(1, 3, 1)],
       orders |-> <<Walkin(1, 0, <<"beverage">>, 1), Walkin(2, 0, <<"beverage">>, 1),
                    Walkin(3, 0, <<"beverage">>, 1)>>,
       arrivals |-> <<Arrival(0, 1, "pack"), Arrival(0, 2, "pack"), Arrival(0, 3, "pack")>>,
       T_end |-> 2] }
    \cup
    { [S |-> [make_stations(BaseCfg) EXCEPT
                 !["dine_in"] = DineInServer(2, 2, 1),
                 !["dine_in_clean"] = Server(1, 1, 1)],
       orders |-> <<Walkin(1, 0, <<"beverage">>, 5), Walkin(2, 0, <<"beverage">>, 5)>>,
       arrivals |-> <<Arrival(0, 1, "dine_in"), Arrival(0, 2, "dine_in")>>,
       T_end |-> 2] }
    \cup
    { [S |-> [make_stations(BaseCfg) EXCEPT
                 !["dine_in"] = DineInServer(1, 2, 1),
                 !["shelf"] = PickupServer(2, 2, 1)],
       orders |-> <<Walkin(1, 0, <<"beverage">>, 5), Walkin(2, 0, <<"beverage">>, 5)>>,
       arrivals |-> <<Arrival(0, 1, "shelf"), Arrival(a, 2, "shelf")>>,
       T_end |-> Horizon] : a \in {0, 1} }

\* An order of five espresso items at a batch station of batch size 2 (one
\* machine with downtime 100, or two with downtime 2), or two orders that
\* reach two espresso machines of batch size 1 one after the other.
BatchScenarios ==
    { [S |-> [make_stations(BaseCfg) EXCEPT
                 !["espresso"] = BatchServer(m[1], Inf, 1, 2, m[2])],
       orders |-> <<DriveThru(1, 0, <<"espresso", "espresso", "espresso",
                                      "espresso", "espresso">>)>>,
       arrivals |-> <<Arrival(0, 1, "window")>>,
       T_end |-> 2 * m[2] + Horizon] : m \in {<<1, 100>>, <<2, 2>>} }
    \cup
    { [S |-> [make_stations(BaseCfg) EXCEPT
                 !["espresso"] = BatchServer(2, Inf, 1, 1, 2)],
       orders |-> <<DriveThru(1, 0, <<"espresso">>),
                    DriveThru(2, a, <<"espresso", "espresso">>)>>,
       arrivals |-> <<Arrival(0, 1, "window"), Arrival(a, 2, "window")>>,
       T_end |-> 2] : a \in {0, 1} }

Channels == {"walkin", "drive_thru", "mobile"}
Priorities == {<<>>, <<"drive_thru", "mobile">>, <<"mobile">>}

PackOrder(oid, ch) == Order(oid, Customer(ch, 0, FALSE, 1), Items(<<"beverage">>), 0)

\* Three packed-to-be orders handed to the pack station at time 0.
PackScenarios ==
    { [S |-> [make_stations(BaseCfg) EXCEPT
                 !["pack"] = PackServer(1, Inf, 1, pr),
                 !["shelf"] = PickupServer(1, 2, 1)],
       orders |-> <<PackOrder(1, "walkin"), PackOrder(2, ch[1]), PackOrder(3, ch[2])>>,
       arrivals |-> <<Arrival(0, 1, "pack"), Arrival(0, 2, "pack"), Arrival(0, 3, "pack")>>,
       T_end |-> 1] : pr \in Priorities, ch \in Channels \X Channels }

\* Inputs outside a regular day: a configuration without a cashier rate; an
\* event of unknown kind between two arrivals; a job handed to the cleaning
\* station although no table awaits its release; an espresso machine whose
\* configured maintenance time is negative, so that its downtime is 0; an
\* item whose own rate is not the rate of the station it is routed to.
FaultScenarios ==
    { [S |-> make_stations([BaseCfg EXCEPT !.rates["cashier"] = None]),
       orders |-> <<Walkin(1, 0, <<"beverage">>, 1)>>,
       arrivals |-> <<Arrival(0, 1, "cashier")>>,
       T_end |-> 1],
      [S |-> make_stations(BaseCfg),
       orders |-> <<DriveThru(1, 0, <<"hotfood">>), DriveThru(2, 1, <<"hotfood">>)>>,
       arrivals |-> <<Arrival(0, 1, "window"), Stray(0), Arrival(1, 2, "window")>>,
       T_end |-> 1],
      [S |-> make_stations(BaseCfg),
       orders |-> <<Walkin(1, 0, <<"beverage">>, 1), Walkin(2, 1, <<"beverage">>, 1)>>,
       arrivals |-> <<Arrival(0, 1, "dine_in_clean"), Arrival(1, 2, "dine_in")>>,
       T_end |-> 2],
      [S |-> make_stations([BaseCfg EXCEPT
                               !.espresso = [batch_size |-> 1, maintenance |-> -2]]),
       orders |-> <<DriveThru(1, 0, <<"espresso", "espresso">>)>>,
       arrivals |-> <<Arrival(0, 1, "window")>>,
       T_end |-> Horizon],
      [S |-> make_stations(BaseCfg),
       orders |-> <<[DriveThru(1, 0, <<"hotfood">>) EXCEPT
                        !.items[1].svc_params.rate = Rate(2)]>>,
       arrivals |-> <<Arrival(0, 1, "window")>>,
       T_end |-> 1] }

InitDay == \E sc \in DayScenarios : InitOf(sc)
InitFault == \E sc \in FaultScenarios : InitOf(sc)
InitBurst == \E sc \in BurstScenarios : InitOf(sc)
InitSeat == \E sc \in SeatScenarios : InitOf(sc)
InitBatch == \E sc \in BatchScenarios : InitOf(sc)
InitPack == \E sc \in PackScenarios : InitOf(sc)

Init == InitDay \/ InitBurst \/ InitSeat \/ InitBatch \/ InitPack \/ InitFault

Spec == Init /\ [][Next]_vars

\* Two runs of run_one_day with the same configuration and seed.
InitTwice ==
    \E sc \in DayScenarios \cup SeatScenarios \cup BatchScenarios :
    \E g1, g2 \in RngStates :
        /\ InitRun(sc)
        /\ rng = random_seed(g1, Seed)
        /\ twin = TwinOf(sc, g2)

NextTwice == RunBoth

SpecTwice == InitTwice /\ [][NextTwice]_vars

\* The same scenario run twice with the same seed, once with the PackServer
\* and once with a base Server of the same c, K and rate in its place.
AsBaseServer(s) == Server(s.c, s.K, s.service_rate)

\* Four orders handed at time 0 to a pack station with room for three.
FullPackScenarios ==
    { [S |-> [make_stations(BaseCfg) EXCEPT
                 !["pack"] = PackServer(1, 3, 1, pr),
                 !["shelf"] = PickupServer(1, 2, 1)],
       orders |-> <<PackOrder(1, "walkin"), PackOrder(2, "walkin"), PackOrder(3, ch[1]),
                    PackOrder(4, ch[2])>>,
       arrivals |-> <<Arrival(0, 1, "pack"), Arrival(0, 2, "pack"), Arrival(0, 3, "pack"),
                      Arrival(0, 4, "pack")>>,
       T_end |-> 1] :
         pr \in Priorities,
         ch \in {<<"walkin", "drive_thru">>, <<"drive_thru", "mobile">>} }

InitPair ==
    \E sc \in PackScenarios \cup FullPackScenarios :
    \E g \in RngStates :
        /\ InitRun(sc)
        /\ rng = random_seed(g, Seed)
        /\ twin = TwinOf([sc EXCEPT !.S["pack"] = AsBaseServer(@)], g)

SpecPair == InitPair /\ [][NextTwice]_vars

\* run_until keeps iterating while its loop condition holds.
SpecLive == Init /\ [][Next]_vars /\ WF_vars(Next)

\* ------------------------------------------------------- reading the trace
Idx == DOMAIN trace

IsAt(i, ev, st) == trace[i].ev = ev /\ trace[i].station = st

\* The first trace entry from j on about station st (0 if none).
RECURSIVE NextFrom(_, _)
NextFrom(j, st) ==
    IF j > Len(trace) THEN 0
    ELSE IF trace[j].station = st THEN j
    ELSE NextFrom(j + 1, st)

\* The next trace entry after i about the same station (0 if none).
NextAt(i) == NextFrom(i + 1, trace[i].station)

\* The entry of the event whose dispatch produced entry i.
RECURSIVE DispatchOf(_)
DispatchOf(i) ==
    IF trace[i].ev \in Kinds THEN i ELSE DispatchOf(i - 1)

Kitchen == {"espresso", "hotfood", "beverage"}

FiniteStations == {n \in DOMAIN S : S[n].K < Inf}

\* -------------------------------------------------------------------- C1
\* C1: at every station queue length + in_service never exceeds K, and
\* Server.enqueue refuses (leaving the station as it was) exactly when
\* queue length + in_service >= K at the call, and otherwise queues the job.
C1_CapacityInvariant ==
    /\ \A n \in DOMAIN S : Len(S[n].queue) + S[n].in_service <= S[n].K
    /\ \A i \in Idx : trace[i].ev = "enqueue" =>
          LET e == trace[i]
              j == NextAt(i)
          IN  /\ (e.val = 0) <=> (Len(e.q) + e.n >= S[e.station].K)
              /\ j # 0 => /\ trace[j].n = e.n
                          /\ trace[j].q = IF e.val = 0 THEN e.q ELSE Append(e.q, e.job)

C1_Witness ==
    \E i \in Idx : /\ trace[i].ev = "enqueue" /\ trace[i].val = 0
                   /\ trace[i].q # <<>> /\ trace[i].n > 0
                   /\ \E j \in Idx : j > i + 1 /\ trace[j].station = trace[i].station
                                     /\ trace[j].ev = "departure"

\* -------------------------------------------------------------------- C2
NoCompletionAt(st) ==
    \A i \in Idx : ~IsAt(i, "departure", st) /\ ~IsAt(i, "release", st)

\* The first entry after i that is not a service start (0 if none).
RECURSIVE AfterStarts(_)
AfterStarts(i) ==
    IF i + 1 > Len(trace) THEN 0
    ELSE IF trace[i + 1].ev # "start" THEN i + 1
    ELSE AfterStarts(i + 1)

\* Router.on_arrival call at entry i: its enqueue result follows at i + 1, and
\* a block notification follows exactly when the result is False.
ArrivalReported(i) ==
    LET e == trace[i + 1]
        b == AfterStarts(i + 1)
    IN  /\ e.ev = "enqueue" /\ e.station = trace[i].station /\ e.job = trace[i].job
        /\ IF e.val = 0
           THEN /\ b = i + 2
                /\ IsAt(b, "block", e.station) /\ trace[b].job = e.job
                /\ (i + 3 \in Idx => trace[i + 3].ev # "block")
           ELSE b # 0 => trace[b].ev # "block"

\* C2: into a station of finite capacity K that has completed nothing yet, the
\* first K admissions succeed and every later one fails; each failed
\* Router.on_arrival produces exactly one block notification.
C2_Burst ==
    LET fresh == {st \in FiniteStations : NoCompletionAt(st)} IN
    \A i \in Idx :
        LET st == trace[i].station IN
        st \in fresh =>
            /\ trace[i].ev = "enqueue" =>
                  ((trace[i].val = 1)
                      <=> (Cardinality({j \in 1..i : IsAt(j, "enqueue", st)}) <= S[st].K))
            /\ trace[i].ev = "on_arrival" => ArrivalReported(i)
            /\ trace[i].ev = "block" =>
                  /\ IsAt(i - 1, "enqueue", st)
                  /\ trace[i - 1].val = 0
                  /\ trace[i - 1].job = trace[i].job

C2_Witness ==
    /\ NoCompletionAt("window")
    /\ Cardinality({i \in Idx : IsAt(i, "arrival", "window")}) = S["window"].K + 2
    /\ Cardinality({i \in Idx : IsAt(i, "block", "window")}) = 2
    /\ Len(S["window"].queue) + S["window"].in_service = S["window"].K

\* -------------------------------------------------------------------- C3
ItemDepartures(o) ==
    {i \in Idx : /\ trace[i].ev = "departure" /\ trace[i].station \in Kitchen
                 /\ trace[i].job.oid = o /\ trace[i].job.idx > 0}

PackArrivals(o) == {i \in Idx : IsAt(i, "on_arrival", "pack") /\ trace[i].job = OrderJob(o)}

\* Pack admissions of order o made by the join (kitchen branch of Router.advance).
Joins(o) ==
    {i \in PackArrivals(o) :
        trace[DispatchOf(i)].ev = "departure" /\ trace[DispatchOf(i)].station \in Kitchen}

\* C3: the join admits an order at pack at the clock time of the completion of
\* its last item (the maximum of the items' completion times), not while
\* fewer than all of its items have completed, and t_ready is that time.
C3_Join ==
    \A o \in DOMAIN orders :
        LET n == Len(orders[o].items)
            deps == ItemDepartures(o)
            joins == Joins(o)
        IN  /\ Cardinality(deps) < n => joins = {} /\ orders[o].t_ready = None
            /\ (n >= 1 /\ Cardinality(deps) = n /\ err = "ok") =>
                  \E i \in joins :
                     /\ joins = {i}
                     /\ \A d \in deps : d < i /\ trace[d].t <= trace[i].t
                     /\ \E d \in deps : trace[d].t = trace[i].t
                     /\ trace[i + 1].ev = "enqueue" /\ trace[i + 1].val = 1
                     /\ orders[o].t_ready = trace[i].t

C3_Witness ==
    \E o \in DOMAIN orders :
        /\ Len(orders[o].items) = 3
        /\ Cardinality(ItemDepartures(o)) = 3
        /\ Joins(o) # {}
        /\ \E d \in ItemDepartures(o) : trace[d].t < orders[o].t_ready

\* -------------------------------------------------------------------- C4
\* Pack admissions of order o made by Router.advance (any branch).
AdvancePackArrivals(o) == {i \in PackArrivals(o) : trace[DispatchOf(i)].ev = "departure"}

\* Pack admission i is the retry of the pack branch: the order has just
\* completed at pack and the shelf has just refused it.
IsShelfRetry(i) ==
    /\ IsAt(DispatchOf(i), "departure", "pack")
    /\ trace[DispatchOf(i)].job = trace[i].job
    /\ IsAt(i - 1, "enqueue", "shelf")
    /\ trace[i - 1].job = trace[i].job
    /\ trace[i - 1].val = 0

\* C4 as stated: Router.advance admits every order at pack at most once.
C4_AtMostOnce ==
    \A o \in DOMAIN orders : Cardinality(AdvancePackArrivals(o)) <= 1

\* C4: the join admits every order at pack at most once, and every other pack
\* admission made by Router.advance is the retry that follows a refusal of
\* the order by the shelf at its pack completion.
C4_JoinOnce ==
    \A o \in DOMAIN orders :
        LET joins == Joins(o) IN
        /\ Cardinality(joins) <= 1
        /\ \A i \in AdvancePackArrivals(o) \ joins : IsShelfRetry(i)

C4_Witness ==
    \E o \in DOMAIN orders :
        /\ Len(orders[o].items) >= 2
        /\ Cardinality(Joins(o)) = 1
        /\ \E i \in AdvancePackArrivals(o) \ Joins(o) : IsShelfRetry(i)

\* -------------------------------------------------------------------- C5
SeatingIsTwoPhase == "dine_in" \in DOMAIN S /\ S["dine_in"].type = "DineInServer"

\* The event the next iteration of the loop dispatches is a completion at st.
CompletionAt(st) == FEL # <<>> /\ FEL[1].kind = "departure" /\ FEL[1].station = st

\* C5: a completion at the seating station leaves its in_service as it is and
\* adds one pending release; in_service and the pending releases decrease only
\* in the dispatch of a completion at dine_in_clean, by exactly one each, and
\* that dispatch then starts the next queued seating job if there is one.
C5_TwoPhaseRelease ==
    [][ SeatingIsTwoPhase =>
          LET d == S["dine_in"]
              e == S'["dine_in"]
          IN  /\ CompletionAt("dine_in") =>
                    /\ e.in_service = d.in_service
                    /\ e.pending_releases = d.pending_releases + 1
                    /\ e.queue = d.queue
              /\ (e.in_service < d.in_service \/ e.pending_releases < d.pending_releases)
                    => CompletionAt("dine_in_clean")
              /\ (CompletionAt("dine_in_clean") /\ d.pending_releases > 0) =>
                    /\ e.pending_releases = d.pending_releases - 1
                    /\ IF d.queue = <<>>
                       THEN e.in_service = d.in_service - 1 /\ e.queue = <<>>
                       ELSE e.in_service = d.in_service /\ e.queue = Tail(d.queue)
      ]_vars

C5_Witness ==
    /\ SeatingIsTwoPhase
    /\ \E i \in Idx : /\ IsAt(i, "release", "dine_in")
                      /\ trace[i].q # <<>>
                      /\ trace[i].n = 1
                      /\ IsAt(i + 1, "start", "dine_in")
                      /\ trace[i + 1].job = trace[i].q[1]
    /\ \E i \in Idx : IsAt(i, "release", "dine_in") /\ trace[i].q = <<>>

\* -------------------------------------------------------------------- C6
SeatStarts == {i \in Idx : IsAt(i, "start", "dine_in")}

\* The seating start before entry i (0 if none).
PrevSeatStart(i) ==
    LET e == {p \in SeatStarts : p < i} IN
    IF e = {} THEN 0 ELSE CHOOSE p \in e : \A k \in e : k <= p

\* Entries about job j at station st with event ev, strictly between a and b.
Between(a, b, ev, st, j) ==
    {k \in Idx : a < k /\ k < b /\ IsAt(k, ev, st) /\ trace[k].job = j}

\* C6: with one table, a seating job starts after the job seated before it
\* has completed and the cleaning job of that completion has started and
\* completed, hence no earlier than that completion plus the cleaning time.
C6_SeatAfterClean ==
    (SeatingIsTwoPhase /\ S["dine_in"].c = 1) =>
        \A i \in SeatStarts :
            LET p == PrevSeatStart(i) IN
            p # 0 =>
                \E dep \in Between(p, i, "departure", "dine_in", trace[p].job) :
                \E cs \in Between(dep, i, "start", "dine_in_clean", trace[p].job) :
                \E cd \in Between(cs, i, "departure", "dine_in_clean", trace[p].job) :
                    /\ trace[cd].t = trace[cs].t + trace[cs].val
                    /\ trace[i].t >= trace[dep].t + trace[cs].val

C6_Witness ==
    /\ SeatingIsTwoPhase /\ S["dine_in"].c = 1
    /\ \E i \in SeatStarts :
          LET p == PrevSeatStart(i) IN
          /\ p # 0
          /\ \E dep \in Between(p, i, "departure", "dine_in", trace[p].job) :
                /\ Between(p, dep, "enqueue", "dine_in", trace[i].job) # {}
                /\ \E cs \in Between(dep, i, "start", "dine_in_clean", trace[p].job) :
                      trace[cs].val > 0 /\ trace[i].t = trace[dep].t + trace[cs].val

\* -------------------------------------------------------------------- C7
BatchStations == {n \in DOMAIN S : S[n].type = "BatchServer"}

\* C7: no service start at a batch station happens while its in_refill is
\* true, whichever call of try_start_service would make it.
C7_NoStartInRefill ==
    \A i \in Idx :
          (trace[i].ev = "start" /\ trace[i].station \in BatchStations) => ~trace[i].flag

C7_Witness ==
    \E st \in BatchStations :
        /\ \E i \in Idx : /\ IsAt(i, "enqueue", st) /\ trace[i].val = 1
                          /\ trace[i].flag /\ trace[i].n < S[st].c
        /\ \E i \in Idx : /\ IsAt(i, "departure", st) /\ trace[i].flag
                          /\ trace[i].q # <<>> /\ trace[i].n <= S[st].c
        /\ \E i \in Idx : IsAt(i, "timer", st) /\ IsAt(i + 1, "start", st)

\* -------------------------------------------------------------------- C8
StartsAt(st) == {i \in Idx : IsAt(i, "start", st)}

\* C8: at a batch station with downtime D > 0, at most batch_size starts
\* happen before the first refill completion and between two consecutive
\* ones, and the start after every batch_size-th start is at least D later;
\* with batch_size 2, D = 100, c = 1 and five jobs queued at time 0, the
\* zero-duration starts are at 0, 0, 100, 100, 200.
C8_BatchGaps ==
    \A st \in BatchStations : S[st].downtime > 0 =>
        LET starts == StartsAt(st)
            timers == {i \in Idx : IsAt(i, "timer", st)}
            B == S[st].batch_size
            D == S[st].downtime
            Rank == [i \in starts |-> Cardinality({j \in starts : j <= i})]
            atZero == {i \in Idx : IsAt(i, "enqueue", st) /\ trace[i].val = 1
                                   /\ trace[i].t = 0}
        IN  /\ \A i \in starts :
                  Cardinality({j \in starts :
                                  j <= i /\ \A k \in timers : k < i => k < j}) <= B
            /\ \A i, j \in starts :
                  (Rank[j] = Rank[i] + 1 /\ Rank[i] % B = 0)
                     => trace[j].t >= trace[i].t + D
            /\ (S[st].c = 1 /\ B = 2 /\ D = 100 /\ Cardinality(atZero) = 5) =>
                  \A i \in starts :
                     (Rank[i] <= 5 /\ \A j \in starts : j <= i => trace[j].val = 0)
                        => trace[i].t = 100 * ((Rank[i] - 1) \div 2)

C8_Witness ==
    \E st \in BatchStations :
        /\ S[st].c = 1 /\ S[st].batch_size = 2 /\ S[st].downtime = 100
        /\ Cardinality({i \in Idx : IsAt(i, "enqueue", st) /\ trace[i].val = 1
                                    /\ trace[i].t = 0}) = 5
        /\ Cardinality(StartsAt(st)) = 5
        /\ \A i \in StartsAt(st) : trace[i].val = 0
        /\ \E i \in StartsAt(st) : trace[i].t = 200

\* -------------------------------------------------------------------- C9
PackStations == {n \in DOMAIN S : S[n].type = "PackServer"}

PackStarts == {i \in Idx : trace[i].ev = "start" /\ trace[i].station \in PackStations}

\* Customer channel of a queued job.
Channel(job) == orders[job.oid].customer.channel

\* Channels of the priority list pr that have a job in queue q, as positions of pr.
Listed(pr, q) == {p \in DOMAIN pr : \E k \in DOMAIN q : Channel(q[k]) = pr[p]}

\* C9: when the priority list is not empty and some queued job's channel is
\* in it, the job started is the earliest queued job of the first listed
\* channel that has a job in the queue.
C9_PriorityDequeue ==
    \A i \in PackStarts :
        LET pr == S[trace[i].station].priority
            q == trace[i].q
            listed == Listed(pr, q)
        IN  listed # {} =>
               LET p == CHOOSE a \in listed : \A b \in listed : a <= b
                   ks == {k \in DOMAIN q : Channel(q[k]) = pr[p]}
                   k == CHOOSE a \in ks : \A b \in ks : a <= b
               IN  /\ trace[i].job = q[k]
                   /\ NextAt(i) # 0 =>
                         trace[NextAt(i)].q = SubSeq(q, 1, k - 1) \o SubSeq(q, k + 1, Len(q))

C9_Witness ==
    \E i \in PackStarts :
        /\ S[trace[i].station].priority = <<"drive_thru", "mobile">>
        /\ Len(trace[i].q) = 2
        /\ Channel(trace[i].q[1]) = "walkin"
        /\ Channel(trace[i].q[2]) = "drive_thru"
        /\ trace[i].job = trace[i].q[2]
        /\ i + 1 \in Idx

\* ------------------------------------------------------------------- C10
\* The admissions at station st and the service starts at st, in order.
Admitted(st) == SelectSeq(trace, LAMBDA e : e.ev = "enqueue" /\ e.station = st /\ e.val = 1)

Started(st) == SelectSeq(trace, LAMBDA e : e.ev = "start" /\ e.station = st)

\* The jobs of the entries es, in order.
JobsOf(es) == [k \in DOMAIN es |-> es[k].job]

\* Sequence a is an initial part of sequence b.
IsPrefix(a, b) == Len(a) <= Len(b) /\ \A k \in DOMAIN a : a[k] = b[k]

OfChannel(es, ch) == SelectSeq(es, LAMBDA e : Channel(e.job) = ch)

\* C10: when the priority list is empty or lists no queued job's channel, the
\* job started is the head of the queue; and two jobs of one channel start
\* in the order in which they were admitted: per channel, the jobs started
\* at pack are, in order, the first of the jobs admitted there.
C10_FifoFallback ==
    /\ \A i \in PackStarts :
          Listed(S[trace[i].station].priority, trace[i].q) = {}
             => trace[i].job = trace[i].q[1]
    /\ \A st \in PackStations :
          LET adm == Admitted(st)
              sta == Started(st)
          IN  \A o \in DOMAIN orders :
                 IsPrefix(JobsOf(OfChannel(sta, Channel(OrderJob(o)))),
                          JobsOf(OfChannel(adm, Channel(OrderJob(o)))))

C10_Witness ==
    \E i \in PackStarts :
        /\ S[trace[i].station].priority = <<"mobile">>
        /\ Len(trace[i].q) = 2
        /\ Channel(trace[i].q[1]) = "drive_thru"
        /\ Channel(trace[i].q[2]) = "drive_thru"
        /\ trace[i].job = trace[i].q[1]
        /\ \E j \in PackStarts : j > i /\ trace[j].job = trace[i].q[2]

\* ------------------------------------------------------------------- C11
\* The first entry from k on, within the current dispatch, whose event is in
\* evs (0 if none).
RECURSIVE NoteFrom(_, _)
NoteFrom(k, evs) ==
    IF k > Len(trace) \/ trace[k].ev \in Kinds THEN 0
    ELSE IF trace[k].ev \in evs THEN k
    ELSE NoteFrom(k + 1, evs)

ShelfDepartures == {i \in Idx : IsAt(i, "departure", "shelf")}

\* The pickup wait of the shelf completion at entry i.
PickupWait(i) ==
    LET o == orders[trace[i].job.oid] IN
    IF o.t_packed # None THEN Max(trace[i].t - o.t_packed, 0) ELSE 0

\* The customer of the shelf completion at entry i may renege after the wait.
MayRenege(i) ==
    LET cust == orders[trace[i].job.oid].customer IN
    /\ cust.dine_in \/ cust.channel = "mobile"
    /\ cust.patience # None
    /\ PickupWait(i) > cust.patience

\* C11: every shelf completion reports exactly one of pickup and renege for
\* its order, with the pickup wait; it is a renege exactly when the customer
\* is dine-in or mobile, has a patience, and the wait is strictly greater.
C11_PickupRenege ==
    \A i \in ShelfDepartures :
        LET k == NoteFrom(i + 1, {"pickup", "renege"}) IN
        /\ k # 0
        /\ trace[k].job = trace[i].job
        /\ trace[k].val = PickupWait(i)
        /\ (trace[k].ev = "renege") <=> MayRenege(i)
        /\ NoteFrom(k + 1, {"pickup", "renege"}) = 0
        /\ orders[trace[i].job.oid].t_picked = trace[i].t

C11_Witness ==
    /\ \E i \in ShelfDepartures :
          /\ MayRenege(i)
          /\ trace[NoteFrom(i + 1, {"pickup", "renege"})].ev = "renege"
    /\ \E i \in ShelfDepartures :
          /\ orders[trace[i].job.oid].customer.channel = "mobile"
          /\ PickupWait(i) = orders[trace[i].job.oid].customer.patience
          /\ PickupWait(i) > 0
          /\ trace[NoteFrom(i + 1, {"pickup", "renege"})].ev = "pickup"

\* ------------------------------------------------------------------- C12
Dispatches == {i \in Idx : trace[i].ev \in Kinds}

\* C12: events are dispatched in non-decreasing time order: the times of the
\* dispatched events never decrease, and no event still in the event list,
\* scheduled before or during the run, is earlier than the clock; the event
\* popped next is an earliest one.
C12_TimeOrder ==
    /\ LET d == SelectSeq(trace, LAMBDA e : e.ev \in Kinds) IN
       /\ \A k \in 1..(Len(d) - 1) : d[k].t <= d[k + 1].t
       /\ \A k \in DOMAIN d : d[k].t <= t
    /\ \A k \in DOMAIN FEL : t <= FEL[k].t /\ FEL[1].t <= FEL[k].t

C12_Witness ==
    /\ \E i, j \in Dispatches :
          /\ i < j /\ trace[i].t < trace[j].t
          /\ trace[i].ev = "departure" /\ trace[j].ev = "arrival"
    /\ \E i \in Dispatches : trace[i].ev = "timer" /\ trace[i].t > 0
    /\ Len(FEL) >= 2
    /\ \E k \in DOMAIN FEL : FEL[k].t > FEL[1].t

\* ------------------------------------------------------------------- C13
\* C13 as stated: no event later than the horizon is dispatched.
C13_StopsAtHorizon ==
    \A i \in Dispatches : trace[i].t <= T_end

\* ------------------------------------------------------------------- C14
\* Number of positions of the event list fel that hold event e.
Count(fel, e) == Cardinality({k \in DOMAIN fel : fel[k] = e})

\* The departure events scheduled by the service starts among the trace
\* entries from..to of the next state, as a set of <<entry, event>>.
NewDepartures(from, to) ==
    {<<k, Event(trace'[k].t + trace'[k].val, "departure", trace'[k].station, trace'[k].job)>> :
        k \in {m \in from .. to : trace'[m].ev = "start"}}

\* The refill timers scheduled by the dispatch of event ev.
NewTimers(ev) ==
    {<<st, Event(t' + S[st].downtime, "timer", st, NoJob)>> :
        st \in {n \in DOMAIN S : /\ S'[n].in_refill
                                 /\ ~S[n].in_refill \/ (ev.kind = "timer" /\ ev.station = n)}}

\* run_until has returned: its loop condition is false.
Returned == FEL = <<>> \/ t > T_end

\* C14: each step pops exactly the earliest event, dispatches it once and
\* leaves in the event list the other events plus the ones the handlers
\* scheduled, each once; when run_until has returned, no event with time
\* within the horizon is left.
C14_ExactlyOnce ==
    [][ /\ FEL # <<>>
        /\ LET ev == FEL[1]
               first == Len(trace) + 1
               last == Len(trace')
               deps == NewDepartures(first + 1, last)
               tims == NewTimers(ev)
               Scheduled(e) == Cardinality({n \in deps : n[2] = e})
                               + Cardinality({n \in tims : n[2] = e})
               Popped(e) == IF e = ev THEN 1 ELSE 0
           IN  /\ last >= first
               /\ trace'[first].ev = ev.kind /\ trace'[first].t = ev.t
               /\ trace'[first].station = ev.station /\ trace'[first].job = ev.job
               /\ \A k \in first + 1 .. last :
                     trace'[k].ev \notin Kinds
               /\ Len(FEL') = Len(FEL) - 1 + Cardinality(deps) + Cardinality(tims)
               /\ \A k \in DOMAIN FEL :
                     Count(FEL', FEL[k]) = Count(FEL, FEL[k]) - Popped(FEL[k]) + Scheduled(FEL[k])
               /\ \A k \in DOMAIN FEL' :
                     Count(FEL', FEL'[k]) = Count(FEL, FEL'[k]) - Popped(FEL'[k]) + Scheduled(FEL'[k])
        /\ Returned' => \A k \in DOMAIN FEL' : FEL'[k].t > T_end
      ]_vars

C14_Witness ==
    /\ Returned
    /\ FEL # <<>>
    /\ \E i \in Dispatches : trace[i].ev = "timer"
    /\ \E i \in Dispatches : trace[i].ev = "departure" /\ trace[i].t > 0

\* ------------------------------------------------------------------- C16
\* C16 as stated: the dispatch of an event of unknown kind ends the run with
\* an error.
C16_UnknownKindFatal ==
    \A i \in Dispatches : trace[i].ev \notin KnownKinds => err # "ok"

\* ------------------------------------------------------------------- C17
\* C17 as stated: a call of release_after_clean with no pending release ends
\* the run with an error.
C17_ReleaseFatal ==
    \A i \in Idx : (trace[i].ev = "release" /\ trace[i].val <= 0) => err # "ok"

\* ------------------------------------------------------------------- C19
\* C19 as stated: every refused admission, at any station, is followed by a
\* block notification for that station and job.
C19_EveryRefusalReported ==
    \A i \in Idx : (trace[i].ev = "enqueue" /\ trace[i].val = 0) =>
        /\ i + 1 \in Idx
        /\ IsAt(i + 1, "block", trace[i].station)
        /\ trace[i + 1].job = trace[i].job

\* ------------------------------------------------------------------- C20
\* C20 as stated: no station built without a service rate reaches a service
\* start during the run.
C20_FailFast ==
    \A n \in DOMAIN S : draw_raises(S[n]) => S[n].queue = <<>> /\ err # "draw_service"

\* ------------------------------------------------------------------- C18
\* The caller of Router.on_arrival at the seating station acts on its result:
\* the seating start is noted exactly when the admission succeeded.
SeatingResultUsed ==
    \A i \in Idx :
        (IsAt(i, "on_arrival", "dine_in") /\ IsAt(DispatchOf(i), "departure", "shelf")) =>
            LET k == NoteFrom(i + 1, {"dinein_start"}) IN
            (trace[i + 1].val = 1) <=> (k # 0 /\ trace[k].job = trace[i].job)

\* C18: the dispatch of an arrival calls Router.on_arrival, which calls the
\* station's enqueue once; when that fails, exactly one block notification
\* follows and stations, jobs and the event list are left as they were; when
\* it succeeds, no block notification follows and the job has its admission
\* timestamp; a caller that uses the result sees the result of enqueue.
C18_RefusedAdmission ==
    [][ /\ (FEL # <<>> /\ FEL[1].kind = "arrival") =>
              LET ev == FEL[1]
                  first == Len(trace) + 1
                  e == trace'[first + 2]
              IN  /\ Len(trace') >= first + 2
                  /\ trace'[first + 1].ev = "on_arrival"
                  /\ trace'[first + 1].station = ev.station
                  /\ trace'[first + 1].job = ev.job
                  /\ e.ev = "enqueue" /\ e.station = ev.station /\ e.job = ev.job
                  /\ IF e.val = 0
                     THEN /\ Len(trace') = first + 3
                          /\ trace'[first + 3].ev = "block"
                          /\ trace'[first + 3].station = ev.station
                          /\ trace'[first + 3].job = ev.job
                          /\ S' = S
                          /\ orders' = orders
                          /\ FEL' = HeapPopRest(FEL)
                          /\ err' = "ok"
                     ELSE /\ \A k \in first + 3 .. Len(trace') : trace'[k].ev # "block"
                          /\ orders'[ev.job.oid].queue_entry_times[ev.station] = ev.t
        /\ SeatingResultUsed'
      ]_vars

C18_Witness ==
    /\ \E i \in Idx : /\ trace[i].ev = "arrival"
                      /\ IsAt(i + 2, "enqueue", trace[i].station)
                      /\ trace[i + 2].val = 0
                      /\ trace[i + 2].q # <<>>
                      /\ orders[trace[i].job.oid].queue_entry_times[trace[i].station] = None
    /\ \E i \in Idx : trace[i].ev = "arrival" /\ trace[i + 2].val = 1 /\ trace[i].t > 0

PackDepartures == {i \in Idx : IsAt(i, "departure", "pack")}

PackedNotes(o) == {p \in Idx : trace[p].ev = "packed" /\ trace[p].job = OrderJob(o)}

\* C21: a pack completion offers the order to the shelf once.  If the shelf
\* refuses, the order is re-admitted at pack at the same clock value, is not
\* stamped and no order-packed note is emitted; if the shelf admits it, the
\* order is stamped with the clock and order-packed is noted.  Per order the
\* stamp and the note exist exactly once, and exactly when a pack completion
\* had its shelf admission succeed.
C21_PackToShelf ==
    /\ \A i \in PackDepartures :
          LET k == NoteFrom(i + 1, {"enqueue"})
              p == NoteFrom(i + 1, {"packed"})
              r == NoteFrom(i + 1, {"on_arrival"})
          IN  /\ k # 0
              /\ IsAt(k, "enqueue", "shelf")
              /\ trace[k].job = trace[i].job
              /\ trace[k].val = 0 =>
                    /\ p = 0
                    /\ r = k + 1
                    /\ IsAt(r, "on_arrival", "pack")
                    /\ trace[r].job = trace[i].job
                    /\ trace[r].t = trace[i].t
                    /\ IsAt(r + 1, "enqueue", "pack")
                    /\ trace[r + 1].val = 1
              /\ trace[k].val = 1 =>
                    /\ p # 0
                    /\ r = 0
                    /\ trace[p].job = trace[i].job
                    /\ trace[p].val = trace[i].t
                    /\ NoteFrom(p + 1, {"packed"}) = 0
    /\ \A o \in DOMAIN orders :
          LET notes == PackedNotes(o) IN
          /\ Cardinality(notes) <= 1
          /\ (orders[o].t_packed = None) <=> (notes = {})
          /\ \A p \in notes :
                /\ orders[o].t_packed = trace[p].val
                /\ IsAt(DispatchOf(p), "departure", "pack")
                /\ trace[DispatchOf(p)].job = OrderJob(o)

C21_Witness ==
    \E i, j \in PackDepartures :
        /\ i < j
        /\ trace[i].job = trace[j].job
        /\ trace[NoteFrom(i + 1, {"enqueue"})].val = 0
        /\ trace[NoteFrom(j + 1, {"enqueue"})].val = 1
        /\ trace[i].t < trace[j].t
        /\ PackedNotes(trace[i].job.oid) # {}

\* ------------------------------------------------------------------- C22
\* The shelf is full and each of its completions lies strictly in the future.
ShelfHolds ==
    /\ "shelf" \in DOMAIN S
    /\ ~can_join(S["shelf"])
    /\ \E k \in DOMAIN FEL : FEL[k].kind = "departure" /\ FEL[k].station = "shelf"
    /\ \A k \in DOMAIN FEL :
          (FEL[k].kind = "departure" /\ FEL[k].station = "shelf") => FEL[k].t > t

\* A pack completion is due at the current clock value.
PackDueNow ==
    \E k \in DOMAIN FEL : /\ FEL[k].kind = "departure" /\ FEL[k].station = "pack"
                          /\ FEL[k].t = t

Spinning == err = "ok" /\ ShelfHolds /\ PackDueNow

\* The entries the current step appends to the trace.
NewEntries == (Len(trace) + 1) .. Len(trace')

\* Every pack service started in the current step was sampled as zero.
ZeroPackStarts ==
    \A i \in NewEntries :
        (trace'[i].ev = "start" /\ trace'[i].station = "pack") => trace'[i].val = 0

\* C22: with pack service durations of zero, a full shelf whose completions
\* are all strictly in the future, and a pack completion due now, every
\* iteration of run_until leaves the clock where it is, dispatches no shelf
\* completion, and ends with the shelf still full and a pack completion due
\* at the same clock value; a dispatched pack completion re-admits its order
\* at pack.  The loop condition of run_until holds throughout, so the loop
\* dispatches pack completions for ever.
C22_RetrySpins ==
    [][ (Spinning /\ ZeroPackStarts) =>
           /\ t' = t
           /\ Spinning'
           /\ ~(FEL[1].kind = "departure" /\ FEL[1].station = "shelf")
           /\ t <= T_end => ~Returned'
           /\ (FEL[1].kind = "departure" /\ FEL[1].station = "pack") =>
                 \E i \in NewEntries :
                     /\ trace'[i].ev = "on_arrival" /\ trace'[i].station = "pack"
                     /\ trace'[i].job = FEL[1].job
                     /\ trace'[i + 1].ev = "enqueue" /\ trace'[i + 1].val = 1 ]_vars

\* The last n dispatches were pack completions of one order at one clock value.
RECURSIVE RetriedFrom(_, _, _)
RetriedFrom(i, job, n) ==
    IF n = 0 THEN TRUE
    ELSE IF i < 1 THEN FALSE
    ELSE IF trace[i].ev \in Kinds
    THEN /\ IsAt(i, "departure", "pack") /\ trace[i].job = job /\ trace[i].t = t
         /\ trace[NoteFrom(i + 1, {"enqueue"})].val = 0
         /\ RetriedFrom(i - 1, job, n - 1)
    ELSE RetriedFrom(i - 1, job, n)

C22_Witness ==
    /\ Spinning
    /\ t < T_end
    /\ Len(trace) > 0
    /\ RetriedFrom(Len(trace), trace[DispatchOf(Len(trace))].job, 4)

\* ------------------------------------------------------------------- C23
BatchNames == {"espresso", "beverage"}

KitchenJobs == {ItemJob(o, i) : o \in 1 .. 2, i \in 1 .. 5}

\* The batch of station n is exhausted and job j is at the head of its queue.
Exhausted(n, j) ==
    /\ n \in BatchStations
    /\ S[n].remaining <= 0
    /\ S[n].queue # <<>>
    /\ S[n].queue[1] = j

\* Job j started service at n after a refill timer of n was dispatched.
StartedAfterRefill(n, j) ==
    \E i \in Idx : /\ IsAt(i, "start", n) /\ trace[i].job = j
                   /\ \E k \in 1 .. i : IsAt(k, "timer", n)

\* The run is over: past the horizon, failed, or at the cap of the trace.
RunOver == t > T_end \/ err # "ok" \/ Len(trace) >= MaxTrace

\* C23: whenever the batch of a batch station is exhausted while a job is
\* queued, then (unless the run ends first) the refill completes and the
\* queued job starts service, whatever the configured downtime >= 0.
C23_RefillCompletes ==
    \A n \in BatchNames : \A j \in KitchenJobs :
        Exhausted(n, j) ~> (StartedAfterRefill(n, j) \/ RunOver)

\* ------------------------------------------------------------------- C24
SeatCompletions == {i \in Idx : IsAt(i, "departure", "dine_in")}

\* Each dispatched seating completion makes one admission attempt at the
\* cleaning station; an accepted attempt is followed by no block note and no
\* further attempt, a refused one by exactly one block note and exactly one
\* further attempt.
CleaningAttempts ==
    \A i \in SeatCompletions :
        LET a == NoteFrom(i + 1, {"enqueue", "block"}) IN
        /\ a # 0
        /\ IsAt(a, "enqueue", cleaning_server)
        /\ trace[a].job = trace[i].job
        /\ trace[a].val = 1 => NoteFrom(a + 1, {"enqueue", "block"}) = 0
        /\ trace[a].val = 0 =>
              /\ IsAt(a + 1, "block", cleaning_server)
              /\ trace[a + 1].job = trace[i].job
              /\ IsAt(a + 2, "enqueue", cleaning_server)
              /\ trace[a + 2].job = trace[i].job
              /\ NoteFrom(a + 3, {"enqueue", "block"}) = 0

\* C24: the dispatch of a seating completion attempts to admit the job at
\* the cleaning station, adds one to the pending-release counter and leaves
\* the seating in_service as it is; a refusal by the cleaning station is
\* followed by exactly one block note and exactly one further attempt.
C24_SeatingCompletion ==
    [][ (SeatingIsTwoPhase /\ CompletionAt("dine_in")) =>
           /\ S'["dine_in"].pending_releases = S["dine_in"].pending_releases + 1
           /\ S'["dine_in"].in_service = S["dine_in"].in_service
           /\ trace'[Len(trace) + 1].job = FEL[1].job
           /\ CleaningAttempts' ]_vars

C24_Witness ==
    /\ SeatingIsTwoPhase
    /\ \E i \in SeatCompletions :
          trace[NoteFrom(i + 1, {"enqueue", "block"})].val = 1
    /\ \E i \in SeatCompletions :
          LET a == NoteFrom(i + 1, {"enqueue", "block"}) IN
          /\ trace[a].val = 0
          /\ IsAt(a + 1, "block", cleaning_server)
          /\ IsAt(a + 2, "enqueue", cleaning_server)
          /\ S["dine_in"].pending_releases = 2

\* ------------------------------------------------------------------- C25
PickupNotes(o) ==
    {k \in Idx : trace[k].ev \in {"pickup", "renege"} /\ trace[k].job = OrderJob(o)}

ShelfAdmissions(o) ==
    {k \in Idx : IsAt(k, "enqueue", "shelf") /\ trace[k].val = 1 /\ trace[k].job = OrderJob(o)}

SeatNotes(o) == {k \in Idx : trace[k].ev = "dinein_start" /\ trace[k].job = OrderJob(o)}

\* The seating admissions the router attempts (those made while a
\* completion is dispatched).
SeatingAttempts ==
    {i \in Idx : IsAt(i, "on_arrival", "dine_in") /\ trace[DispatchOf(i)].ev = "departure"}

\* C25: per order there is at most one pickup or pickup-renege note, one for
\* each dispatched shelf completion of the order and only for an order
\* admitted to the shelf.  The router attempts a seating admission exactly
\* after the pickup note of a dine-in customer, never after a renege and
\* never for another customer; dine-in-start is noted and t_seated stamped
\* exactly when that admission succeeded.
C25_PickupOutcome ==
    LET attempts == SeatingAttempts
        shelfDeps == ShelfDepartures
    IN
    /\ \A o \in DOMAIN orders :
          LET notes == PickupNotes(o)
              deps == {i \in shelfDeps : trace[i].job = OrderJob(o)}
          IN  /\ Cardinality(notes) <= 1
              /\ Cardinality(notes) = Cardinality(deps)
              /\ deps # {} => ShelfAdmissions(o) # {}
              /\ \A k \in notes : trace[DispatchOf(k)].job = OrderJob(o)
                                  /\ DispatchOf(k) \in deps
    /\ \A i \in attempts :
          /\ trace[i - 1].ev = "pickup"
          /\ trace[i - 1].job = trace[i].job
          /\ orders[trace[i].job.oid].customer.dine_in
          /\ LET k == NoteFrom(i + 1, {"dinein_start"}) IN
             (trace[i + 1].val = 1) <=> (k # 0 /\ trace[k].job = trace[i].job)
    /\ \A k \in Idx :
          /\ trace[k].ev = "renege" => NoteFrom(k + 1, {"on_arrival", "dinein_start"}) = 0
          /\ trace[k].ev = "pickup" =>
                IF orders[trace[k].job.oid].customer.dine_in /\ "dine_in" \in DOMAIN S
                THEN k + 1 \in attempts /\ trace[k + 1].job = trace[k].job
                ELSE NoteFrom(k + 1, {"on_arrival", "dinein_start"}) = 0
    /\ \A o \in DOMAIN orders :
          LET seated == SeatNotes(o) IN
          /\ Cardinality(seated) <= 1
          /\ (orders[o].t_seated # None) <=> (seated # {})
          /\ \A k \in seated :
                /\ orders[o].t_seated = trace[k].t
                /\ \E i \in attempts :
                      /\ DispatchOf(i) = DispatchOf(k)
                      /\ trace[i].job = OrderJob(o)
                      /\ trace[i + 1].val = 1

C25_Witness ==
    /\ \E k \in Idx : /\ trace[k].ev = "renege"
                      /\ orders[trace[k].job.oid].customer.dine_in
    /\ \E i \in SeatingAttempts : trace[i + 1].val = 1
    /\ \E i \in SeatingAttempts : trace[i + 1].val = 0

\* ------------------------------------------------------------------- C26
BlockNotes(o) == {k \in Idx : trace[k].ev = "block" /\ trace[k].job = OrderJob(o)}

\* C26: no order has both a pickup note and a block note, and no order has
\* both a pickup-renege note and a block note.
C26_OneOutcome ==
    \A o \in DOMAIN orders : PickupNotes(o) # {} => BlockNotes(o) = {}

\* ------------------------------------------------------------------- C27
\* job.svc_params['rate'] where the job carries one (only Items do).
JobRate(job) ==
    IF job.idx = 0 THEN NoRate ELSE orders[job.oid].items[job.idx].svc_params.rate

\* C27: every service start samples its duration with the job's own rate if
\* the job carries one, and with the station's configured rate otherwise.
C27_JobRateFirst ==
    \A i \in Idx :
        trace[i].ev = "start" =>
            trace[i].rate = IF JobRate(trace[i].job) # NoRate
                            THEN JobRate(trace[i].job)
                            ELSE Rate(S[trace[i].station].service_rate)

\* ------------------------------------------------------------------- C28
AdmissionEntries == {k \in Idx : trace[k].ev = "enqueue" /\ trace[k].val = 1}

StartEntries == {k \in Idx : trace[k].ev = "start"}

\* The last of the entries es before entry i that is about job at station
\* st (0 if none).
LastBefore(es, i, st, job) ==
    LET hits == {k \in es : k < i /\ trace[k].station = st /\ trace[k].job = job}
    IN  IF hits = {} THEN 0 ELSE CHOOSE k \in hits : \A m \in hits : m <= k

Completions == {i \in Idx : trace[i].ev = "departure"}

\* C28: the dispatch of every completion first emits a wait note for the
\* job at that station whose value is max(0, now - sampled service duration
\* - admission timestamp), with the duration and the timestamp of the job's
\* latest admission and start at that station; this is the time between
\* that admission and that service start.
C28_WaitValue ==
    LET admissions == AdmissionEntries
        starts == StartEntries
    IN
    \A i \in Completions :
        LET st == trace[i].station
            a == LastBefore(admissions, i, st, trace[i].job)
            b == LastBefore(starts, i, st, trace[i].job)
        IN  /\ a # 0 /\ b # 0 /\ a < b
            /\ trace[i].t = trace[b].t + trace[b].val
            /\ IsAt(i + 1, "wait", st)
            /\ trace[i + 1].job = trace[i].job
            /\ trace[i + 1].val = Max(0, trace[i].t - trace[b].val - trace[a].t)
            /\ trace[i + 1].val = trace[b].t - trace[a].t

C28_Witness ==
    /\ \E i \in Completions :
          /\ trace[i].station = "dine_in"
          /\ trace[i + 1].val > 0
          /\ trace[LastBefore(StartEntries, i, "dine_in", trace[i].job)].val > 0
    /\ \E i \in Completions :
          /\ trace[i].station = "dine_in_clean"
          /\ trace[LastBefore(StartEntries, i, "dine_in_clean", trace[i].job)].val > 0
    /\ \E i \in Completions : trace[i].station = "shelf"

\* ------------------------------------------------------------------- C29
Min(a, b) == IF a <= b THEN a ELSE b

\* The trace entries about station st, in order.
About(st) == SelectSeq(trace, LAMBDA e : e.station = st)

\* The integral of in_service from time prev on, up to time upto, read off
\* the entries es about one station from position k on: every change of
\* in_service has an entry that carries the value before it.
RECURSIVE Integral(_, _, _, _)
Integral(es, k, prev, upto) ==
    IF k > Len(es) THEN 0
    ELSE es[k].n * (Min(es[k].t, upto) - Min(prev, upto))
         + Integral(es, k + 1, es[k].t, upto)

\* C29: at every state a station's busy_time is the integral of the step
\* function in_service over the time up to last_change, and therefore at
\* most c times the clock.
C29_BusyTime ==
    \A n \in DOMAIN S :
        /\ S[n].busy_time = IF S[n].last_change = 0 THEN 0
                            ELSE Integral(About(n), 1, 0, S[n].last_change)
        /\ S[n].prev_in_service = S[n].in_service
        /\ S[n].last_change <= t
        /\ S[n].in_service <= S[n].c
        /\ S[n].busy_time <= S[n].c * t

C29_Witness ==
    /\ SeatingIsTwoPhase
    /\ S["dine_in"].c > 1
    /\ S["dine_in"].busy_time > S["dine_in"].last_change
    /\ \E i \in Idx : IsAt(i, "release", "dine_in") /\ trace[i].val > 0 /\ trace[i].n > 1
    /\ \E i \in Idx : IsAt(i, "start", "dine_in_clean") /\ trace[i].val > 0

\* ------------------------------------------------------------------- C30
FifoStations == {n \in DOMAIN S : S[n].type \in {"Server", "BatchServer"}}

FifoStarts == {i \in Idx : trace[i].ev = "start" /\ trace[i].station \in FifoStations}

\* C30: a base Server and a BatchServer start the job at the head of the
\* queue, and the jobs started at such a station are, in order, the first of
\* the jobs admitted there: of two admitted jobs the one admitted earlier
\* starts first.
C30_FifoStart ==
    /\ \A i \in FifoStarts : trace[i].job = trace[i].q[1]
    /\ \A st \in FifoStations : IsPrefix(JobsOf(Started(st)), JobsOf(Admitted(st)))

C30_Witness ==
    /\ \E i, j \in FifoStarts :
          /\ S[trace[i].station].type = "Server"
          /\ Len(trace[i].q) >= 2
          /\ i < j
          /\ trace[j].station = trace[i].station
          /\ trace[j].job = trace[i].q[2]
    /\ \E i, j \in FifoStarts :
          /\ S[trace[i].station].type = "BatchServer"
          /\ Len(trace[i].q) >= 2
          /\ i < j
          /\ trace[j].station = trace[i].station
          /\ trace[j].job = trace[i].q[2]

\* ------------------------------------------------------------------- C32
\* The decrements of in_service: the completions at a station that frees
\* its slot on completion, and the releases that found a pending release.
Decrements ==
    {i \in Idx : \/ /\ trace[i].ev = "departure"
                     /\ S[trace[i].station].type # "DineInServer"
                  \/ /\ trace[i].ev = "release"
                     /\ trace[i].val > 0}

\* C32: at every station 0 <= in_service <= c in every reachable state; the
\* slots of the seating station that await cleaning are among its in_service;
\* and every decrement of in_service found it at 1 or more.
C32_InServiceRange ==
    /\ \A n \in DOMAIN S :
          /\ 0 <= S[n].in_service
          /\ S[n].in_service <= S[n].c
          /\ 0 <= S[n].pending_releases
          /\ S[n].pending_releases <= S[n].in_service
    /\ \A i \in Decrements : trace[i].n >= 1

C32_Witness ==
    /\ S["dine_in"].c = 2
    /\ \E i \in Decrements : /\ IsAt(i, "release", "dine_in")
                             /\ trace[i].n = 2
                             /\ IsAt(i - 1, "wait", "dine_in_clean")
    /\ \E i \in Decrements : IsAt(i, "departure", "dine_in_clean") /\ trace[i].n = 1

\* ------------------------------------------------------------------- C31
\* The entries of trace tr about station st, in order.
AboutIn(tr, st) == SelectSeq(tr, LAMBDA e : e.station = st)

\* What an entry shows of capacity and timing: the event, the clock, the
\* queue length, in_service, and the admission result or sampled duration.
Timing(e) ==
    <<e.ev, e.t, Len(e.q), e.n,
      IF e.ev \in {"enqueue", "start", "departure"} THEN e.val ELSE 0>>

\* The pending events without the identity of their jobs.
Pending(fel) == [k \in DOMAIN fel |-> <<fel[k].t, fel[k].kind, fel[k].station>>]

\* C31: beside a run with a base Server in the place of the PackServer, the
\* run with the PackServer shows the same admission results, the same queue
\* length and in_service at every entry about the station, the same start
\* times and durations and the same pending events; with an empty priority
\* list the two runs are the same entry by entry, jobs included.
C31_PackAsServer ==
    LET mine == AboutIn(trace, "pack")
        base == AboutIn(twin.trace, "pack")
    IN  /\ Len(mine) = Len(base)
        /\ \A k \in DOMAIN mine : Timing(mine[k]) = Timing(base[k])
        /\ Len(S["pack"].queue) = Len(twin.S["pack"].queue)
        /\ S["pack"].in_service = twin.S["pack"].in_service
        /\ S["pack"].busy_time = twin.S["pack"].busy_time
        /\ t = twin.t
        /\ Pending(FEL) = Pending(twin.FEL)
        /\ S["pack"].priority = <<>> =>
              /\ trace = twin.trace
              /\ FEL = twin.FEL
              /\ S["pack"].queue = twin.S["pack"].queue

C31_Witness ==
    /\ S["pack"].priority # <<>>
    /\ twin.S["pack"].type = "Server"
    /\ \E k \in Idx : /\ IsAt(k, "start", "pack")
                      /\ twin.trace[k].job # trace[k].job
                      /\ Len(trace[k].q) = 2
    /\ \E k \in Idx : IsAt(k, "enqueue", "pack") /\ trace[k].val = 0
    /\ \E k \in Idx : IsAt(k, "enqueue", "shelf") /\ trace[k].val = 0
    /\ \E k \in Idx : IsAt(k, "departure", "pack") /\ trace[k].t > 0

\* ------------------------------------------------------------------- C33
\* The refill timers of station n that are scheduled and not yet dispatched.
RefillTimers(n) == {k \in DOMAIN FEL : FEL[k].kind = "timer" /\ FEL[k].station = n}

\* C33 as stated: after every dispatch a station with a non-empty queue has
\* all its c servers busy, or, if it is a batch station with a free server,
\* is in refill with a refill timer scheduled.
C33_WorkConserving ==
    err = "ok" =>
        \A n \in DOMAIN S :
            S[n].queue # <<>> =>
                IF S[n].type = "BatchServer"
                THEN S[n].in_service < S[n].c => S[n].in_refill /\ RefillTimers(n) # {}
                ELSE S[n].in_service = S[n].c

\* ------------------------------------------------------------------- C34
\* The scheduled and not yet dispatched completion events.
Completing == {k \in DOMAIN FEL : FEL[k].kind = "departure"}

CompletingAt(n) == {k \in Completing : FEL[k].station = n}

\* The queue positions of all stations.
Queued == UNION {{<<n, p>> : p \in DOMAIN S[n].queue} : n \in DOMAIN S}

\* C34: after every dispatch the number of pending completion events of a
\* station is its in_service, less the pending releases at the seating
\* station, which lie between 0 and in_service; no job has two pending
\* completion events, none is queued twice or at two stations, and no queued
\* job has a pending completion event.
C34_EventsMatchService ==
    err = "ok" =>
        /\ \A n \in DOMAIN S :
              /\ Cardinality(CompletingAt(n)) = S[n].in_service - S[n].pending_releases
              /\ 0 <= S[n].pending_releases
              /\ S[n].pending_releases <= S[n].in_service
              /\ S[n].type # "DineInServer" => S[n].pending_releases = 0
        /\ \A j, k \in Completing : FEL[j].job = FEL[k].job => j = k
        /\ \A x, y \in Queued : S[x[1]].queue[x[2]] = S[y[1]].queue[y[2]] => x = y
        /\ \A x \in Queued : \A k \in Completing : S[x[1]].queue[x[2]] # FEL[k].job

C34_Witness ==
    /\ S["dine_in"].type = "DineInServer"
    /\ S["dine_in"].pending_releases >= 1
    /\ CompletingAt("dine_in") # {}
    /\ CompletingAt("dine_in_clean") # {}

\* ------------------------------------------------------------------- C35
\* The seating station is two-phase and the cleaning station is fed by it
\* alone: no arrival event targets the cleaning station.
CleaningIsPaired ==
    /\ "dine_in" \in DOMAIN S
    /\ S["dine_in"].type = "DineInServer"
    /\ \A i \in Idx : ~IsAt(i, "arrival", cleaning_server)
    /\ \A k \in DOMAIN FEL : ~(FEL[k].kind = "arrival" /\ FEL[k].station = cleaning_server)

\* The jobs resident in the cleaning station.
CleaningResident == Len(S[cleaning_server].queue) + S[cleaning_server].in_service

\* The seating completions whose cleaning job the cleaning station refused
\* at both attempts.
Leaked ==
    {i \in Idx : /\ IsAt(i, "block", cleaning_server)
                 /\ IsAt(i + 1, "enqueue", cleaning_server)
                 /\ trace[i + 1].val = 0}

\* C35 as stated: after every dispatch the pending releases are as many as
\* the jobs resident in the cleaning station, whatever its capacity.
C35_ReleaseMatched ==
    (err = "ok" /\ CleaningIsPaired) => S["dine_in"].pending_releases = CleaningResident

\* C35: after every dispatch the pending releases are as many as the jobs
\* resident in the cleaning station plus the completed seatings whose
\* cleaning job was refused twice; every completion of a cleaning job finds
\* a pending release and frees one slot; with a cleaning station that
\* cannot refuse, no seating is without its cleaning job.
C35_ReleaseMatchedOrLeaked ==
    (err = "ok" /\ CleaningIsPaired) =>
        /\ S["dine_in"].pending_releases = CleaningResident + Cardinality(Leaked)
        /\ \A i \in Idx : IsAt(i, "release", "dine_in") =>
              /\ trace[i].val >= 1
              /\ IsAt(DispatchOf(i), "departure", cleaning_server)
        /\ \A i \in Idx : IsAt(i, "block", cleaning_server) => i \in Leaked
        /\ S[cleaning_server].K = Inf => Leaked = {}

C35_Witness ==
    /\ CleaningIsPaired
    /\ Leaked # {}
    /\ CleaningResident = 0
    /\ S["dine_in"].pending_releases = 1
    /\ \E i \in Idx : IsAt(i, "release", "dine_in") /\ trace[i].val = 2

\* ------------------------------------------------------------------- C36
\* The counter and the refill flag of batch station n are in order.
BatchInOrder(n) ==
    /\ 0 <= S[n].remaining
    /\ S[n].remaining <= S[n].batch_size
    /\ Cardinality(RefillTimers(n)) <= 1
    /\ S[n].in_refill <=> RefillTimers(n) # {}

\* The service starts at station n made by the step.
NewStarts(n) == {i \in NewEntries : trace'[i].ev = "start" /\ trace'[i].station = n}

\* C36: at every batch station 0 <= remaining <= batch_size, at most one
\* refill timer is outstanding and one is outstanding exactly when in_refill
\* is true; a step lowers remaining by one per service start it makes at the
\* station, counted from batch_size if the step dispatches its refill timer.
C36_BatchCounter ==
    [][\A n \in BatchStations :
          /\ BatchInOrder(n)
          /\ BatchInOrder(n)'
          /\ err' = "ok" =>
                S'[n].remaining =
                    (IF FEL[1].kind = "timer" /\ FEL[1].station = n
                     THEN S[n].batch_size ELSE S[n].remaining)
                    - Cardinality(NewStarts(n))]_vars

C36_Witness ==
    \E n \in BatchStations :
        /\ S[n].in_refill
        /\ S[n].remaining = 0
        /\ S[n].batch_size = 2
        /\ \E i \in Idx : /\ IsAt(i, "timer", n)
                          /\ IsAt(i + 1, "start", n)
                          /\ IsAt(i + 2, "start", n)

\* ------------------------------------------------------------------- C37
\* The lifecycle timestamps of an order record, in the order of the stages.
Stamps(o) ==
    <<o.t_created, o.t_ready, o.t_packed, o.t_picked, o.t_seated, o.t_left_dine_in>>

\* The timestamps that are set do not decrease along the stages.
StampsOrdered(o) ==
    \A i, j \in DOMAIN Stamps(o) :
        (i < j /\ Stamps(o)[i] # None /\ Stamps(o)[j] # None) => Stamps(o)[i] <= Stamps(o)[j]

\* No timestamp is set while one of an earlier stage is unset.
NoStageSkipped(o) ==
    \A i, j \in DOMAIN Stamps(o) : (i < j /\ Stamps(o)[j] # None) => Stamps(o)[i] # None

FrontEnd == {"cashier", "window"}

\* schedule_arrivals hands every order to the cashier or to the window; an
\* order is handed in elsewhere if an arrival event of it names another
\* station.
HandedInElsewhere(o) ==
    \/ \E k \in DOMAIN FEL : /\ FEL[k].kind = "arrival"
                             /\ FEL[k].job = OrderJob(o)
                             /\ FEL[k].station \notin FrontEnd
    \/ \E i \in Idx : /\ trace[i].ev = "arrival"
                      /\ trace[i].job = OrderJob(o)
                      /\ trace[i].station \notin FrontEnd

\* C37: the timestamps of an order that are set are ordered t_created <=
\* t_ready <= t_packed <= t_picked <= t_seated <= t_left_dine_in; a timestamp
\* that is set is never written again, and one that a dispatch sets holds the
\* clock of that dispatch; for an order handed in at the cashier or the
\* window none is set while an earlier one is unset.
C37_Timestamps ==
    [][\A o \in DOMAIN orders :
          /\ StampsOrdered(orders[o]) /\ StampsOrdered(orders'[o])
          /\ ~HandedInElsewhere(o) =>
                NoStageSkipped(orders[o]) /\ NoStageSkipped(orders'[o])
          /\ \A i \in DOMAIN Stamps(orders[o]) :
                IF Stamps(orders[o])[i] # None
                THEN Stamps(orders'[o])[i] = Stamps(orders[o])[i]
                ELSE Stamps(orders'[o])[i] \in {None, t'}]_vars

\* A walk-in order of three items went through every stage, not all at the
\* same time.
C37_Witness ==
    \E o \in DOMAIN orders :
        /\ ~HandedInElsewhere(o)
        /\ Len(orders[o].items) = 3
        /\ orders[o].t_left_dine_in # None
        /\ orders[o].t_created < orders[o].t_ready
        /\ orders[o].t_packed < orders[o].t_picked
        /\ orders[o].t_seated < orders[o].t_left_dine_in

\* ------------------------------------------------------------------- C38
\* Two dine-in orders handed at time 0 to a pack station with two packers in
\* front of a shelf with room for one order.
RetryScenarios ==
    { [S |-> [make_stations(BaseCfg) EXCEPT
                 !["pack"] = PackServer(2, Inf, 1, <<>>),
                 !["shelf"] = PickupServer(1, 1, 1)],
       orders |-> <<Walkin(1, 0, <<"beverage">>, 5), Walkin(2, 0, <<"beverage">>, 5)>>,
       arrivals |-> <<Arrival(0, 1, "pack"), Arrival(0, 2, "pack")>>,
       T_end |-> Horizon] }

\* The scenarios in which every batch station has a positive downtime.
PositiveScenarios ==
    {sc \in DayScenarios \cup BurstScenarios \cup SeatScenarios \cup BatchScenarios
             \cup PackScenarios \cup FaultScenarios \cup RetryScenarios :
        \A n \in DOMAIN sc.S : sc.S[n].type = "BatchServer" => sc.S[n].downtime > 0}

InitPositive == \E sc \in PositiveScenarios : InitOf(sc)

\* Every duration sampled by the step is positive.
PositiveDraws == \A i \in NewEntries : trace'[i].ev = "start" => trace'[i].val > 0

ArrivalPositive == DispatchArrival /\ PositiveDraws
DeparturePositive == DispatchDeparture /\ PositiveDraws
TimerPositive == DispatchTimer /\ PositiveDraws
OtherPositive == DispatchOther /\ PositiveDraws

NextPositive == ArrivalPositive \/ DeparturePositive \/ TimerPositive \/ OtherPositive

\* run_until keeps iterating while its loop condition holds; service
\* durations and downtimes are positive.
SpecPositive == InitPositive /\ [][NextPositive]_vars /\ WF_vars(NextPositive)

\* run_until has returned (loop condition false) or raised.
LoopLeft == FEL = <<>> \/ t > T_end \/ err # "ok"

\* C38: with positive service durations and batch downtimes run_until
\* terminates, whatever the initial arrival events and the horizon of the
\* scenario, also through the pack-to-shelf retry and the seating/cleaning
\* pair.
C38_Terminates == <>LoopLeft

\* The run is over after an order refused by the shelf went through pack a
\* second time and a table was released after its cleaning.
C38_Witness ==
    /\ LoopLeft
    /\ err = "ok"
    /\ \A i \in Idx : trace[i].ev = "start" => trace[i].val > 0
    /\ \E i, j \in Idx : /\ i < j
                         /\ IsAt(i, "start", "pack") /\ IsAt(j, "start", "pack")
                         /\ trace[i].job = trace[j].job
    /\ \E i \in Idx : IsAt(i, "release", "dine_in") /\ trace[i].val > 0

====
